---- MODULE Spec2Model ----
(***************************************************************************)
(* Intcode virtual machine and the day7 feedback-amplifier orchestrator.   *)
(*                                                                         *)
(* Spec   : src/day7/src/main.rs, the five-engine ring: main seeds five    *)
(*          mpsc channels, spawns engines A..D on threads, runs engine E   *)
(*          on the main thread and keeps the maximum of E's results.       *)
(* Spec9  : src/day9/src/main.rs, one Intcode engine (new/step/evaluate)   *)
(*          driven through the two channel ends its caller keeps.          *)
(* Next2  : src/day2/src/main.rs, the Add/Mul interpreter of one trial.    *)
(* Next5  : src/day5/src/main.rs, evaluate(memory, input).                 *)
(***************************************************************************)
EXTENDS Integers, Sequences, FiniteSets, TLC

VARIABLES
    program,              \* main: the parsed program image (`memory` in day7)
    mainpc,               \* day7 main: position of the main thread
    permIdx,              \* day7 main: permutations taken from the iterator so far
    max_thruster_signal,  \* day7 main: running maximum
    printed,              \* day7 main: what println! wrote (<<>> until then)
    diagnostics,          \* history: the diagnostic codes main obtained, in order
    eng,                  \* eng[i]: engine i of the current pipeline run (memory, pc, ...)
    chan,                 \* chan[p]: channel p of the current pipeline run
    vm,                   \* day9: the Intcode struct (memory, pc, relative_base)
    io,                   \* day9: the two channels of the Intcode struct
    day2,                 \* day2 main: noun, verb, memory, pc of one trial
    day5,                 \* day5 evaluate: memory, pc, diagnostic_code, input
    hist                  \* history: the pc and memory each interpreter went through

vars == <<program, mainpc, permIdx, max_thruster_signal, printed, diagnostics, eng, chan, vm, io,
          day2, day5, hist>>
vars7 == <<mainpc, permIdx, max_thruster_signal, printed, diagnostics, eng, chan>>
vars9 == <<vm, io>>
vars2 == <<day2>>
vars5 == <<day5>>

-----------------------------------------------------------------------------
(* Bounds of the model *)

\* the for loop of day7 main is followed over the first MaxRuns permutations
MaxRuns == 2

-----------------------------------------------------------------------------
(* History of the interpreters' steps *)

\* nothing is recorded
NoHist == [on |-> FALSE, d9 |-> <<>>, d7 |-> <<>>, d5 |-> <<>>, d2 |-> <<>>]
NoTrace == hist = NoHist

\* s with <<pc, mem>> added when the step changed pc or memory
Seen(s, pc, mem, pcNext, memNext) ==
    IF pcNext # pc \/ memNext # mem THEN Append(s, <<pcNext, memNext>>) ELSE s

\* where recording is on, the pc and memory each interpreter has after a step
\* it made are added to its sequence: the day9 engine, engine A of day7,
\* day5's evaluate, the day2 loop
Observe ==
    hist' = IF hist.on
            THEN [on |-> TRUE,
                  d9 |-> Seen(hist.d9, vm.pc, vm.memory, vm'.pc, vm'.memory),
                  d7 |-> Seen(hist.d7, eng[0].pc, eng[0].mem, eng'[0].pc, eng'[0].mem),
                  d5 |-> Seen(hist.d5, day5.pc, day5.mem, day5'.pc, day5'.mem),
                  d2 |-> Seen(hist.d2, day2.pc, day2.memory, day2'.pc, day2'.memory)]
            ELSE hist

-----------------------------------------------------------------------------
(* Text: i64::to_string, chars().rev() *)

DigitChar == <<"0", "1", "2", "3", "4", "5", "6", "7", "8", "9">>

RECURSIVE Digits(_)
Digits(n) ==
    IF n < 10 THEN <<DigitChar[n + 1]>>
    ELSE Digits(n \div 10) \o <<DigitChar[(n % 10) + 1]>>

\* memory[pc].to_string()
to_string(n) == IF n < 0 THEN <<"-">> \o Digits(-n) ELSE Digits(n)

\* s.chars().rev()
Rev(s) == [k \in 1..Len(s) |-> s[Len(s) + 1 - k]]

-----------------------------------------------------------------------------
(* day7 decoder *)

\* impl FromStr for Mode (day7): "1" is Immediate, anything else Position
Mode_from_str(ch) == IF ch = "1" THEN "Immediate" ELSE "Position"

\* Instruction::parameters (day7)
parameters7(op) ==
    CASE op \in {"Add", "Mul"} -> 3
      [] op \in {"Input", "Output"} -> 1
      [] op \in {"JumpTrue", "JumpFalse"} -> 2
      [] op \in {"LessThan", "Equals"} -> 3

\* the match on op_code at the end of from_str (day7)
OpOfChar7(ch) ==
    CASE ch = "1" -> "Add"
      [] ch = "2" -> "Mul"
      [] ch = "3" -> "Input"
      [] ch = "4" -> "Output"
      [] ch = "5" -> "JumpTrue"
      [] ch = "6" -> "JumpFalse"
      [] ch = "7" -> "LessThan"
      [] ch = "8" -> "Equals"
      [] OTHER -> "Unknown"

\* impl FromStr for Instruction (day7): the last character is the op code, the
\* one before it is skipped, the next three (where present) are the modes.
Instruction_from_str7(s) ==
    LET chars == Rev(s)
        modes == [k \in 1..3 |->
                    IF Len(chars) >= k + 2 THEN Mode_from_str(chars[k + 2])
                    ELSE "Position"]
    IN  IF Len(chars) = 0
        THEN [ok |-> FALSE, op |-> "Unknown", ch |-> "none", modes |-> <<>>]
        ELSE LET op == OpOfChar7(chars[1]) IN
             IF op = "Unknown"
             THEN [ok |-> FALSE, op |-> op, ch |-> chars[1], modes |-> <<>>]
             ELSE [ok |-> TRUE, op |-> op, ch |-> chars[1],
                   modes |-> SubSeq(modes, 1, parameters7(op))]

-----------------------------------------------------------------------------
(* day7 main: constants of the orchestrator *)

Engines == 0..4            \* A, B, C, D, E
Ports == 0..4              \* the channels a, b, c, d, e
EngineE == 4

\* [5, 6, 7, 8, 9]
PhaseSettings == <<5, 6, 7, 8, 9>>

RECURSIVE Fact(_)
Fact(n) == IF n <= 1 THEN 1 ELSE n * Fact(n - 1)

RemoveAt(s, j) == SubSeq(s, 1, j - 1) \o SubSeq(s, j + 1, Len(s))

\* the k-th item (from 0) of itertools' permutations(5): lexicographic in the
\* positions of the source items
RECURSIVE NthPermutation(_, _)
NthPermutation(items, k) ==
    IF Len(items) = 0 THEN <<>>
    ELSE LET f == Fact(Len(items) - 1)
             j == (k \div f) + 1
         IN  <<items[j]>> \o NthPermutation(RemoveAt(items, j), k % f)

NumPermutations == Fact(Len(PhaseSettings))

\* how many iterations of the for loop the model follows
NumRuns == IF MaxRuns < NumPermutations THEN MaxRuns ELSE NumPermutations

\* memory.clone()
Clone(p) == [a \in 0..(Len(p) - 1) |-> p[a + 1]]

\* the initial signal sent to A before A's phase setting
SeedSignalFirst(settings) ==
    [p \in Ports |-> IF p = 0 THEN <<0, settings[1]>> ELSE <<settings[p + 1]>>]

\* a_send.send(*settings[0]) ... e_send.send(*settings[4]); a_send.send(0)
Seed(settings) ==
    [p \in Ports |-> IF p = 0 THEN <<settings[1], 0>> ELSE <<settings[p + 1]>>]

\* a chain: E is given e_send, the Sender of its own input channel
WiringChain(i) == [inp |-> i, out |-> IF i = 4 THEN 4 ELSE i + 1]

\* the channel ends moved into engine i: (a_rec, b_send) ... (e_rec, a_send)
Wiring(i) == [inp |-> i, out |-> (i + 1) % 5]

-----------------------------------------------------------------------------
(* std::sync::mpsc channel as used by both programs *)

\* a recv that takes the newest value in flight instead of the oldest
ChanRecvNewest(c, who) ==
    [c EXCEPT !.queue = SubSeq(@, 1, Len(@) - 1),
              !.received = Append(@, c.queue[Len(c.queue)]),
              !.readers = @ \cup {who}]

\* A channel: the values in flight and whether each end is still alive.
\* History kept with it: all values sent and all values received, in order, how
\* many of the sent values main seeded, and which engines used each end.

\* a channel of capacity one: a value sent while another waits takes its place
ChanSendCapacityOne(c, v, who) ==
    [c EXCEPT !.queue = <<v>>, !.sent = Append(@, v),
              !.writers = @ \cup {who}]

\* Sender::send by engine `who` on a channel whose receiver is alive
ChanSend(c, v, who) ==
    [c EXCEPT !.queue = Append(@, v), !.sent = Append(@, v),
              !.writers = @ \cup {who}]

\* Receiver::recv by engine `who` on a channel holding a value
ChanRecv(c, who) ==
    [c EXCEPT !.queue = Tail(@), !.received = Append(@, Head(c.queue)),
              !.readers = @ \cup {who}]

NoChan == [queue |-> <<>>, senderAlive |-> FALSE, receiverAlive |-> FALSE,
           sent |-> <<>>, received |-> <<>>, seeded |-> 0,
           writers |-> {}, readers |-> {}]

\* channel() followed by the sends of `seed` by the thread that made it
NewChan(seed) == [queue |-> seed, senderAlive |-> TRUE, receiverAlive |-> TRUE,
                  sent |-> seed, received |-> <<>>, seeded |-> Len(seed),
                  writers |-> {}, readers |-> {}]

-----------------------------------------------------------------------------
(* Programs the model runs *)

\* read the phase setting, read the signal, output the signal, halt
IdentityProgram == <<3, 0, 3, 1, 4, 1, 99>>

\* read the phase setting, then twice: read the signal and output it; halt
FeedbackProgram == <<3, 0, 3, 1, 4, 1, 3, 1, 4, 1, 99>>

\* read the phase setting, read the signal, output signal - 1, halt
DecrementProgram == <<3, 0, 3, 1, 1001, 1, -1, 1, 4, 1, 99>>

\* read the phase setting, read the signal; if the signal is 0 jump to an
\* unknown op code, else output the signal and meet the unknown op code
BadOpProgram == <<3, 0, 3, 1, 1006, 1, 9, 4, 1, 0>>

\* read the phase setting, read the signal, output it, then run off the end of memory
RunOffProgram == <<3, 0, 3, 1, 4, 1>>

Programs7 == {IdentityProgram, FeedbackProgram, DecrementProgram, BadOpProgram, RunOffProgram}


-----------------------------------------------------------------------------
(* day7 evaluate: one iteration of the while loop on a Vec<i64> memory *)

\* Result<Option<i64>, IntcodeError> of evaluate, or the panic that ended it
Running == [kind |-> "running", val |-> 0, ch |-> ""]
OkNone == [kind |-> "none", val |-> 0, ch |-> ""]
OkSome(v) == [kind |-> "some", val |-> v, ch |-> ""]
ErrOpCode(c) == [kind |-> "opcode", val |-> 0, ch |-> c]
ErrInput == [kind |-> "input", val |-> 0, ch |-> ""]
Panicked == [kind |-> "panic", val |-> 0, ch |-> ""]

\* Vec indexing: memory[a] panics unless 0 <= a < len (a negative i64 cast
\* with `as usize` is far past the end)
InBounds(mem, a) == a \in DOMAIN mem

\* the match on a read operand's Mode
Value7(mem, pc, k, mode) ==
    IF ~InBounds(mem, pc + k) THEN [ok |-> FALSE, v |-> 0]
    ELSE IF mode = "Immediate" THEN [ok |-> TRUE, v |-> mem[pc + k]]
    ELSE IF InBounds(mem, mem[pc + k]) THEN [ok |-> TRUE, v |-> mem[mem[pc + k]]]
    ELSE [ok |-> FALSE, v |-> 0]

\* the match on a location operand's Mode
Location7(mem, pc, k, mode) ==
    IF mode = "Immediate" THEN [ok |-> TRUE, v |-> pc + k]
    ELSE IF InBounds(mem, pc + k) THEN [ok |-> TRUE, v |-> mem[pc + k]]
    ELSE [ok |-> FALSE, v |-> 0]

\* the instruction decoded at the head of an iteration (memory[pc] in bounds, not 99)
Decoded7(e) == Instruction_from_str7(to_string(e.mem[e.pc]))

\* LessThan computed as "not greater"
ArithResultLessOrEqual(op, a, b) ==
    CASE op = "Add" -> a + b
      [] op = "Mul" -> a * b
      [] op = "LessThan" -> IF a <= b THEN 1 ELSE 0
      [] OTHER -> IF a = b THEN 1 ELSE 0

\* the match computing v for Add, Mul, LessThan, Equals
ArithResult(op, a, b) ==
    CASE op = "Add" -> a + b
      [] op = "Mul" -> a * b
      [] op = "LessThan" -> IF a < b THEN 1 ELSE 0
      [] OTHER -> IF a = b THEN 1 ELSE 0

\* the two conditions taken for each other
JumpCondInverted(op, a) == IF op = "JumpTrue" THEN a = 0 ELSE a # 0

\* the match computing cond for JumpTrue, JumpFalse
JumpCond(op, a) == IF op = "JumpTrue" THEN a # 0 ELSE a = 0

ArithOps == {"Add", "Mul", "LessThan", "Equals"}
JumpOps == {"JumpTrue", "JumpFalse"}

\* the iteration reads memory[pc] and it is not 99
AtInstr7(e) == e.status = "running" /\ InBounds(e.mem, e.pc) /\ e.mem[e.pc] # 99

\* the iteration decodes an instruction of kind ops
At7(e, ops) == AtInstr7(e) /\ Decoded7(e).ok /\ Decoded7(e).op \in ops

\* an index out of bounds met by the iteration before any channel operation
IndexPanics7(e) ==
    \/ ~InBounds(e.mem, e.pc)
    \/ /\ AtInstr7(e)
       /\ Decoded7(e).ok
       /\ LET d == Decoded7(e)
              m == d.modes
          IN  CASE d.op \in ArithOps ->
                     \/ ~Value7(e.mem, e.pc, 1, m[1]).ok
                     \/ ~Value7(e.mem, e.pc, 2, m[2]).ok
                     \/ ~Location7(e.mem, e.pc, 3, m[3]).ok
                     \/ ~InBounds(e.mem, Location7(e.mem, e.pc, 3, m[3]).v)
                [] d.op = "Input" -> ~Location7(e.mem, e.pc, 1, m[1]).ok
                [] d.op = "Output" ->
                     \/ ~Location7(e.mem, e.pc, 1, m[1]).ok
                     \/ ~InBounds(e.mem, Location7(e.mem, e.pc, 1, m[1]).v)
                [] OTHER ->
                     \/ ~Value7(e.mem, e.pc, 1, m[1]).ok
                     \/ ~Value7(e.mem, e.pc, 2, m[2]).ok

\* a failed send handed on as an error instead of ending the run with Some(out)
SendFailedAsErr(out) == [kind |-> "send", val |-> out, ch |-> ""]

\* lines 164-166: the send failed, return Ok(Some(out))
SendFailed7(out) == OkSome(out)

\* line 160: the value an Output instruction sends
OutputValue7(e) == e.mem[Location7(e.mem, e.pc, 1, Decoded7(e).modes[1]).v]

\* a failed recv taken for the end of the program
RecvFailedAsNone == OkNone

\* From<RecvError> for IntcodeError, taken by the ? of line 157
RecvFailed7 == ErrInput

\* evaluate is left but its output Sender stays alive
Leave7KeepSender(i, res) ==
    /\ eng' = [eng EXCEPT ![i].status = "returned", ![i].result = res]
    /\ UNCHANGED chan

\* evaluate is left (return or unwinding): its parameters are dropped in reverse
\* order of declaration, the output Sender first
Leave7(i, res) ==
    /\ eng' = [eng EXCEPT ![i].status = "returned", ![i].result = res]
    /\ chan' = [chan EXCEPT ![Wiring(i).out].senderAlive = FALSE]

Main7Unchanged == UNCHANGED <<program, mainpc, permIdx, max_thruster_signal, printed, diagnostics>>

\* the halt returning the last value the engine sent, 0 if it sent none
Halt7ReturnsLast(i) ==
    LET e == eng[i]
        c == chan[Wiring(i).out]
    IN
    /\ e.status = "running"
    /\ InBounds(e.mem, e.pc)
    /\ e.mem[e.pc] = 99
    /\ Leave7(i, OkSome(IF Len(c.sent) > c.seeded THEN c.sent[Len(c.sent)] ELSE 0))
    /\ Main7Unchanged /\ UNCHANGED <<vars9, vars2, vars5>> /\ Observe

\* the halt handled like an instruction: pc moves past the 99
Halt7Advance(i) ==
    LET e == eng[i] IN
    /\ e.status = "running"
    /\ InBounds(e.mem, e.pc)
    /\ e.mem[e.pc] = 99
    /\ eng' = [eng EXCEPT ![i].status = "returned", ![i].result = OkNone,
                          ![i].pc = @ + 1]
    /\ chan' = [chan EXCEPT ![Wiring(i).out].senderAlive = FALSE]
    /\ Main7Unchanged /\ UNCHANGED <<vars9, vars2, vars5>> /\ Observe

\* while memory[pc] != 99 { ... } Ok(None)
Halt7(i) ==
    LET e == eng[i] IN
    /\ e.status = "running"
    /\ InBounds(e.mem, e.pc)
    /\ e.mem[e.pc] = 99
    /\ Leave7(i, OkNone)
    /\ Main7Unchanged /\ UNCHANGED <<vars9, vars2, vars5>> /\ Observe

\* Instruction::from_str(...)? fails
DecodeError7(i) ==
    LET e == eng[i] IN
    /\ AtInstr7(e)
    /\ ~Decoded7(e).ok
    /\ Leave7(i, ErrOpCode(Decoded7(e).ch))
    /\ Main7Unchanged /\ UNCHANGED <<vars9, vars2, vars5>> /\ Observe

\* an index out of bounds panics the thread that runs evaluate
Panic7(i) ==
    LET e == eng[i] IN
    /\ e.status = "running"
    /\ IndexPanics7(e)
    /\ Leave7(i, Panicked)
    /\ Main7Unchanged /\ UNCHANGED <<vars9, vars2, vars5>> /\ Observe

\* Add, Mul, LessThan, Equals
Arith7(i) ==
    LET e == eng[i] IN
    /\ At7(e, ArithOps)
    /\ ~IndexPanics7(e)
    /\ LET d == Decoded7(e)
           a == Value7(e.mem, e.pc, 1, d.modes[1]).v
           b == Value7(e.mem, e.pc, 2, d.modes[2]).v
           location == Location7(e.mem, e.pc, 3, d.modes[3]).v
       IN  eng' = [eng EXCEPT ![i].mem[location] = ArithResult(d.op, a, b),
                              ![i].pc = @ + parameters7(d.op) + 1]
    /\ UNCHANGED chan
    /\ Main7Unchanged /\ UNCHANGED <<vars9, vars2, vars5>> /\ Observe

\* JumpTrue, JumpFalse
Jump7(i) ==
    LET e == eng[i] IN
    /\ At7(e, JumpOps)
    /\ ~IndexPanics7(e)
    /\ LET d == Decoded7(e)
           a == Value7(e.mem, e.pc, 1, d.modes[1]).v
           jmp == Value7(e.mem, e.pc, 2, d.modes[2]).v
       IN  eng' = [eng EXCEPT ![i].pc =
                     IF JumpCond(d.op, a) THEN jmp ELSE @ + parameters7(d.op) + 1]
    /\ UNCHANGED chan
    /\ Main7Unchanged /\ UNCHANGED <<vars9, vars2, vars5>> /\ Observe

\* Input: input.recv() returns a value; memory[location] = v
Input7Recv(i) ==
    LET e == eng[i]
        c == chan[Wiring(i).inp]
    IN
    /\ At7(e, {"Input"})
    /\ ~IndexPanics7(e)
    /\ c.queue # <<>>
    /\ LET location == Location7(e.mem, e.pc, 1, Decoded7(e).modes[1]).v
           v == Head(c.queue)
       IN  IF InBounds(e.mem, location)
           THEN /\ eng' = [eng EXCEPT ![i].mem[location] = v,
                                      ![i].pc = @ + parameters7(Decoded7(e).op) + 1]
                /\ chan' = [chan EXCEPT ![Wiring(i).inp] = ChanRecv(c, i)]
           ELSE /\ eng' = [eng EXCEPT ![i].status = "returned",
                                      ![i].result = Panicked]
                /\ chan' = [chan EXCEPT ![Wiring(i).inp] = ChanRecv(c, i),
                                        ![Wiring(i).out].senderAlive = FALSE]
    /\ Main7Unchanged /\ UNCHANGED <<vars9, vars2, vars5>> /\ Observe

\* Input: input.recv()? fails, the sender is gone and nothing is queued
Input7Fail(i) ==
    LET e == eng[i]
        c == chan[Wiring(i).inp]
    IN
    /\ At7(e, {"Input"})
    /\ ~IndexPanics7(e)
    /\ c.queue = <<>>
    /\ ~c.senderAlive
    /\ Leave7(i, RecvFailed7)
    /\ Main7Unchanged /\ UNCHANGED <<vars9, vars2, vars5>> /\ Observe

\* Output: output.send(out) succeeds
Output7Send(i) ==
    LET e == eng[i]
        c == chan[Wiring(i).out]
    IN
    /\ At7(e, {"Output"})
    /\ ~IndexPanics7(e)
    /\ c.receiverAlive
    /\ chan' = [chan EXCEPT ![Wiring(i).out] = ChanSend(c, OutputValue7(e), i)]
    /\ eng' = [eng EXCEPT ![i].pc = @ + parameters7(Decoded7(e).op) + 1]
    /\ Main7Unchanged /\ UNCHANGED <<vars9, vars2, vars5>> /\ Observe

\* Output: output.send(out).is_err(), return Ok(Some(out))
Output7Closed(i) ==
    LET e == eng[i]
        c == chan[Wiring(i).out]
    IN
    /\ At7(e, {"Output"})
    /\ ~IndexPanics7(e)
    /\ ~c.receiverAlive
    /\ Leave7(i, SendFailed7(OutputValue7(e)))
    /\ Main7Unchanged /\ UNCHANGED <<vars9, vars2, vars5>> /\ Observe

\* evaluate's input Receiver is dropped last. On a spawned thread the closure
\* then ends (its unwrap panics that thread alone); on the main thread control
\* is back in main at line 242.
DropInput7(i) ==
    /\ eng[i].status = "returned"
    /\ eng' = [eng EXCEPT ![i].status = "finished"]
    /\ chan' = [chan EXCEPT ![Wiring(i).inp].receiverAlive = FALSE]
    /\ mainpc' = IF i = EngineE THEN "compare" ELSE mainpc
    /\ UNCHANGED <<program, permIdx, max_thruster_signal, printed, diagnostics>>
    /\ UNCHANGED <<vars9, vars2, vars5>> /\ Observe

EngineStep7(i) ==
    \/ Halt7(i)
    \/ DecodeError7(i)
    \/ Panic7(i)
    \/ Arith7(i)
    \/ Jump7(i)
    \/ Input7Recv(i)
    \/ Input7Fail(i)
    \/ Output7Send(i)
    \/ Output7Closed(i)
    \/ DropInput7(i)

-----------------------------------------------------------------------------
(* day7 main *)

NoEngine == [mem |-> <<>>, pc |-> 0, status |-> "none", result |-> Running]

\* the process ends (main returned or panicked): threads still alive end with it
KillThreads(en) ==
    [i \in Engines |->
        IF en[i].status \in {"running", "returned"}
        THEN [en[i] EXCEPT !.status = "killed"]
        ELSE en[i]]

Init7 ==
    /\ program \in Programs7
    /\ mainpc = "loop"
    /\ permIdx = 0
    /\ max_thruster_signal = 0
    /\ printed = <<>>
    /\ diagnostics = <<>>
    /\ eng = [i \in Engines |-> NoEngine]
    /\ chan = [p \in Ports |-> NoChan]

\* the next permutation is started with the state of the previous run kept: the
\* engines go on from the memories the last run left
MainSetupReuse ==
    /\ mainpc = "loop"
    /\ permIdx < NumRuns
    /\ LET settings == NthPermutation(PhaseSettings, permIdx)
       IN  chan' = [p \in Ports |-> NewChan(Seed(settings)[p])]
    /\ eng' = [i \in Engines |->
                [mem |-> IF permIdx = 0 THEN Clone(program) ELSE eng[i].mem,
                 pc |-> 0, status |-> "created", result |-> Running]]
    /\ permIdx' = permIdx + 1
    /\ mainpc' = "spawn"
    /\ UNCHANGED <<program, max_thruster_signal, printed, diagnostics>>
    /\ UNCHANGED <<vars9, vars2, vars5>> /\ Observe

\* lines 206-227: the next permutation, five channels, the seeds, five clones.
\* Threads of the previous run that are still alive are detached: they hold only
\* that run's channels and memories, which nothing of this run can reach, and
\* the model follows them no further.
MainSetup ==
    /\ mainpc = "loop"
    /\ permIdx < NumRuns
    /\ LET settings == NthPermutation(PhaseSettings, permIdx)
       IN  chan' = [p \in Ports |-> NewChan(Seed(settings)[p])]
    /\ eng' = [i \in Engines |->
                [mem |-> Clone(program), pc |-> 0,
                 status |-> "created", result |-> Running]]
    /\ permIdx' = permIdx + 1
    /\ mainpc' = "spawn"
    /\ UNCHANGED <<program, max_thruster_signal, printed, diagnostics>>
    /\ UNCHANGED <<vars9, vars2, vars5>> /\ Observe

\* lines 229-240: thread::spawn for A, B, C, D, in that order
Spawn(i) ==
    /\ mainpc = "spawn"
    /\ i # EngineE
    /\ eng[i].status = "created"
    /\ \A j \in Engines : j < i => eng[j].status # "created"
    /\ eng' = [eng EXCEPT ![i].status = "running"]
    /\ UNCHANGED <<program, mainpc, permIdx, max_thruster_signal, printed, diagnostics, chan>>
    /\ UNCHANGED <<vars9, vars2, vars5>> /\ Observe

\* line 242: main calls evaluate for E itself
CallE ==
    /\ mainpc = "spawn"
    /\ \A j \in Engines : j # EngineE => eng[j].status # "created"
    /\ eng' = [eng EXCEPT ![EngineE].status = "running"]
    /\ mainpc' = "evalE"
    /\ UNCHANGED <<program, permIdx, max_thruster_signal, printed, diagnostics, chan>>
    /\ UNCHANGED <<vars9, vars2, vars5>> /\ Observe

\* lines 242-246: .unwrap().unwrap() yields the diagnostic code; keep the maximum
MainCompare ==
    /\ mainpc = "compare"
    /\ eng[EngineE].result.kind = "some"
    /\ LET diagnostic_code == eng[EngineE].result.val
       IN  max_thruster_signal' =
             IF diagnostic_code > max_thruster_signal
             THEN diagnostic_code ELSE max_thruster_signal
    /\ diagnostics' = Append(diagnostics, eng[EngineE].result.val)
    /\ mainpc' = "loop"
    /\ UNCHANGED <<program, permIdx, printed, eng, chan>>
    /\ UNCHANGED <<vars9, vars2, vars5>> /\ Observe

\* a failed run left out of the maximum, the loop going on
MainSkip ==
    /\ mainpc = "compare"
    /\ eng[EngineE].result.kind # "some"
    /\ mainpc' = "loop"
    /\ UNCHANGED <<program, permIdx, max_thruster_signal, printed, diagnostics, eng, chan>>
    /\ UNCHANGED <<vars9, vars2, vars5>> /\ Observe

\* line 242: E's evaluate panicked, or unwrap meets an Err or a None: main
\* panics and the process ends
MainPanic ==
    /\ mainpc = "compare"
    /\ eng[EngineE].result.kind # "some"
    /\ mainpc' = "panicked"
    /\ eng' = KillThreads(eng)
    /\ UNCHANGED <<program, permIdx, max_thruster_signal, printed, diagnostics, chan>>
    /\ UNCHANGED <<vars9, vars2, vars5>> /\ Observe

\* line 249: the iterator is exhausted; println! and main returns
MainFinish ==
    /\ mainpc = "loop"
    /\ permIdx = NumRuns
    /\ printed' = <<max_thruster_signal>>
    /\ mainpc' = "done"
    /\ eng' = KillThreads(eng)
    /\ UNCHANGED <<program, permIdx, max_thruster_signal, diagnostics, chan>>
    /\ UNCHANGED <<vars9, vars2, vars5>> /\ Observe

Main7 == MainSetup \/ (\E i \in Engines : Spawn(i)) \/ CallE \/ MainCompare
            \/ MainPanic \/ MainFinish

-----------------------------------------------------------------------------
(* day9 decoder *)

\* the day7 decoder's modes: no Relative mode
ModeWithoutRelative(ch) == IF ch = "1" THEN "Immediate" ELSE "Position"

\* impl From<char> for Mode
Mode_from(ch) ==
    IF ch = "2" THEN "Relative" ELSE IF ch = "1" THEN "Immediate" ELSE "Position"

\* AdjRelative given a second operand
parametersAdjTwo(op) ==
    CASE op \in {"Add", "Mul"} -> 3
      [] op \in {"Input", "Output"} -> 1
      [] op \in {"JumpTrue", "JumpFalse"} -> 2
      [] op \in {"LessThan", "Equals"} -> 3
      [] op = "AdjRelative" -> 2

\* Instruction::parameters
parameters(op) ==
    CASE op \in {"Add", "Mul"} -> 3
      [] op \in {"Input", "Output"} -> 1
      [] op \in {"JumpTrue", "JumpFalse"} -> 2
      [] op \in {"LessThan", "Equals"} -> 3
      [] op = "AdjRelative" -> 1

\* enum Instruction and the constructors at the end of from_str: how many of
\* the three modes each variant carries
Carried(op) ==
    CASE op \in {"Add", "Mul", "LessThan", "Equals"} -> 3
      [] op \in {"JumpTrue", "JumpFalse"} -> 2
      [] op \in {"Input", "Output", "AdjRelative"} -> 1

\* the match on op_code at the end of from_str
OpOfChar(ch) == IF ch = "9" THEN "AdjRelative" ELSE OpOfChar7(ch)

\* a decoder that inspects the skipped character: the op code must be padded
\* with a zero
Instruction_from_strPadded(s) ==
    LET chars == Rev(s)
        modes == [k \in 1..3 |->
                    IF Len(chars) >= k + 2 THEN Mode_from(chars[k + 2])
                    ELSE "Position"]
    IN  IF Len(chars) = 0
        THEN [ok |-> FALSE, op |-> "Unknown", ch |-> "none", modes |-> <<>>]
        ELSE LET op == IF Len(chars) >= 2 /\ chars[2] # "0"
                       THEN "Unknown" ELSE OpOfChar(chars[1]) IN
             IF op = "Unknown"
             THEN [ok |-> FALSE, op |-> op, ch |-> chars[1], modes |-> <<>>]
             ELSE [ok |-> TRUE, op |-> op, ch |-> chars[1],
                   modes |-> SubSeq(modes, 1, Carried(op))]

\* impl FromStr for Instruction
Instruction_from_str(s) ==
    LET chars == Rev(s)
        modes == [k \in 1..3 |->
                    IF Len(chars) >= k + 2 THEN Mode_from(chars[k + 2])
                    ELSE "Position"]
    IN  IF Len(chars) = 0
        THEN [ok |-> FALSE, op |-> "Unknown", ch |-> "none", modes |-> <<>>]
        ELSE LET op == OpOfChar(chars[1]) IN
             IF op = "Unknown"
             THEN [ok |-> FALSE, op |-> op, ch |-> chars[1], modes |-> <<>>]
             ELSE [ok |-> TRUE, op |-> op, ch |-> chars[1],
                   modes |-> SubSeq(modes, 1, Carried(op))]

-----------------------------------------------------------------------------
(* day9 Intcode: sparse memory, operand resolution *)

\* Intcode::new: the HashMap from the enumerated program, pc 0, relative base 0
Intcode_new(p) ==
    [memory |-> Clone(p), pc |-> 0, relative_base |-> 0,
     status |-> "running", result |-> Running]

\* Intcode::get_memory: unwrap_or(&0)
get_memory(m, position) == IF position \in DOMAIN m.memory THEN m.memory[position] ELSE 0

\* a store into a Vec-like memory: a location past the program is not stored
insertInBounds(memory, location, v) ==
    IF location \in DOMAIN memory THEN (location :> v) @@ memory ELSE memory

\* self.memory.insert(location, v)
insert(memory, location, v) == (location :> v) @@ memory

\* a Relative read resolved like a Position read: the relative base left out
get_valueNoBase(m, offset, mode) ==
    LET pos == m.pc + offset IN
    IF mode = "Immediate" THEN get_memory(m, pos)
    ELSE get_memory(m, get_memory(m, pos))

\* Intcode::get_value
get_value(m, offset, mode) ==
    LET pos == m.pc + offset IN
    CASE mode = "Position" -> get_memory(m, get_memory(m, pos))
      [] mode = "Immediate" -> get_memory(m, pos)
      [] mode = "Relative" -> get_memory(m, get_memory(m, pos) + m.relative_base)

\* Relative resolved like Position: the relative base left out
get_locationNoBase(m, offset, mode) ==
    LET pos == m.pc + offset IN
    IF mode = "Immediate" THEN pos ELSE get_memory(m, pos)

\* Intcode::get_location
get_location(m, offset, mode) ==
    LET pos == m.pc + offset IN
    CASE mode = "Position" -> get_memory(m, pos)
      [] mode = "Immediate" -> pos
      [] mode = "Relative" -> get_memory(m, pos) + m.relative_base

\* step, line 168: the instruction decoded from the word at pc
Decoded(m) == Instruction_from_str(to_string(get_value(m, 0, "Immediate")))

\* evaluate's loop condition holds and step decodes an instruction of kind ops
At9(m, ops) ==
    /\ m.status = "running"
    /\ get_memory(m, m.pc) # 99
    /\ Decoded(m).ok
    /\ Decoded(m).op \in ops

\* step, lines 196-197: the value an Output instruction sends
OutputValue(m) == get_memory(m, get_location(m, 1, Decoded(m).modes[1]))

\* step, lines 201-203: the send failed, return Ok(Some(out))
SendFailed(out) == OkSome(out)

\* From<RecvError> for IntcodeError, taken by the ? of line 192
RecvFailed == ErrInput

-----------------------------------------------------------------------------
(* day9 Intcode: evaluate, one iteration of its loop per action *)

\* the two threads of the day9 program: the one that runs `computer`, and the
\* holder of the other channel ends
Computer == "computer"
Peer == "peer"

\* evaluate returns r; the struct is left as the last step made it
Return9(r) == vm' = [vm EXCEPT !.status = "returned", !.result = r]

\* while self.get_memory(self.pc) != 99 { ... } Ok(None)
Halt9 ==
    /\ vm.status = "running"
    /\ get_memory(vm, vm.pc) = 99
    /\ Return9(OkNone)
    /\ UNCHANGED io
    /\ UNCHANGED <<program, vars7, vars2, vars5>> /\ Observe

\* an unknown op code skipped: step goes on with the next word
DecodeErrorSkips ==
    /\ vm.status = "running"
    /\ get_memory(vm, vm.pc) # 99
    /\ ~Decoded(vm).ok
    /\ vm' = [vm EXCEPT !.pc = @ + 1]
    /\ UNCHANGED io
    /\ UNCHANGED <<program, vars7, vars2, vars5>> /\ Observe

\* step: Instruction::from_str(...)? fails, evaluate returns the error
DecodeError9 ==
    /\ vm.status = "running"
    /\ get_memory(vm, vm.pc) # 99
    /\ ~Decoded(vm).ok
    /\ Return9(ErrOpCode(Decoded(vm).ch))
    /\ UNCHANGED io
    /\ UNCHANGED <<program, vars7, vars2, vars5>> /\ Observe

\* step: Add, Mul, LessThan, Equals
Arith9 ==
    /\ At9(vm, ArithOps)
    /\ LET d == Decoded(vm)
           a == get_value(vm, 1, d.modes[1])
           b == get_value(vm, 2, d.modes[2])
           location == get_location(vm, 3, d.modes[3])
       IN  vm' = [vm EXCEPT !.memory = insert(@, location, ArithResult(d.op, a, b)),
                            !.pc = @ + parameters(d.op) + 1]
    /\ UNCHANGED io
    /\ UNCHANGED <<program, vars7, vars2, vars5>> /\ Observe

\* step: Input, recv returns a value
Input9Recv ==
    /\ At9(vm, {"Input"})
    /\ io.input.queue # <<>>
    /\ LET location == get_location(vm, 1, Decoded(vm).modes[1])
           v == Head(io.input.queue)
       IN  vm' = [vm EXCEPT !.memory = insert(@, location, v),
                            !.pc = @ + parameters(Decoded(vm).op) + 1]
    /\ io' = [io EXCEPT !.input = ChanRecv(@, Computer)]
    /\ UNCHANGED <<program, vars7, vars2, vars5>> /\ Observe

\* step: Input, recv fails: the sender is gone and nothing is queued
Input9Fail ==
    /\ At9(vm, {"Input"})
    /\ io.input.queue = <<>>
    /\ ~io.input.senderAlive
    /\ Return9(RecvFailed)
    /\ UNCHANGED io
    /\ UNCHANGED <<program, vars7, vars2, vars5>> /\ Observe

\* step: Output, send succeeds
Output9Send ==
    /\ At9(vm, {"Output"})
    /\ io.output.receiverAlive
    /\ io' = [io EXCEPT !.output = ChanSend(@, OutputValue(vm), Computer)]
    /\ vm' = [vm EXCEPT !.pc = @ + parameters(Decoded(vm).op) + 1]
    /\ UNCHANGED <<program, vars7, vars2, vars5>> /\ Observe

\* step: Output, send fails: step and evaluate return Ok(Some(out))
Output9Closed ==
    /\ At9(vm, {"Output"})
    /\ ~io.output.receiverAlive
    /\ Return9(SendFailed(OutputValue(vm)))
    /\ UNCHANGED io
    /\ UNCHANGED <<program, vars7, vars2, vars5>> /\ Observe

\* step: JumpTrue, JumpFalse
Jump9 ==
    /\ At9(vm, JumpOps)
    /\ LET d == Decoded(vm)
           a == get_value(vm, 1, d.modes[1])
           jmp == get_value(vm, 2, d.modes[2])
       IN  vm' = [vm EXCEPT !.pc =
                    IF JumpCond(d.op, a) THEN jmp ELSE @ + parameters(d.op) + 1]
    /\ UNCHANGED io
    /\ UNCHANGED <<program, vars7, vars2, vars5>> /\ Observe

\* step: AdjRelative
AdjRelative9 ==
    /\ At9(vm, {"AdjRelative"})
    /\ LET a == get_value(vm, 1, Decoded(vm).modes[1])
       IN  vm' = [vm EXCEPT !.relative_base = @ + a,
                            !.pc = @ + parameters(Decoded(vm).op) + 1]
    /\ UNCHANGED io
    /\ UNCHANGED <<program, vars7, vars2, vars5>> /\ Observe

\* the closure of lines 259-261 ends (by return or by unwrap's panic) and drops
\* `computer`: its fields go in declaration order, the input Receiver first ...
DropIntcodeInput ==
    /\ vm.status = "returned"
    /\ vm' = [vm EXCEPT !.status = "dropping"]
    /\ io' = [io EXCEPT !.input.receiverAlive = FALSE]
    /\ UNCHANGED <<program, vars7, vars2, vars5>> /\ Observe

\* ... then the output Sender
DropIntcodeOutput ==
    /\ vm.status = "dropping"
    /\ vm' = [vm EXCEPT !.status = "dropped"]
    /\ io' = [io EXCEPT !.output.senderAlive = FALSE]
    /\ UNCHANGED <<program, vars7, vars2, vars5>> /\ Observe

Engine9 ==
    \/ Halt9
    \/ DecodeError9
    \/ Arith9
    \/ Input9Recv
    \/ Input9Fail
    \/ Output9Send
    \/ Output9Closed
    \/ Jump9
    \/ AdjRelative9
    \/ DropIntcodeInput
    \/ DropIntcodeOutput

-----------------------------------------------------------------------------
(* day9: the holder of the other two channel ends. main (lines 252-265) sends *)
(* one value and receives until the output channel closes; the peer is any   *)
(* user of Intcode::new, which may also send more and drop either end.       *)

\* the peer sends at most MaxSends values
MaxSends == 2

\* values the peer sends
InputValues == {-1, 0, 2}

\* send_in.send(v)
PeerSend(v) ==
    /\ io.input.senderAlive
    /\ io.input.receiverAlive
    /\ Len(io.input.sent) < MaxSends
    /\ io' = [io EXCEPT !.input = ChanSend(@, v, Peer)]
    /\ UNCHANGED vm
    /\ UNCHANGED <<program, vars7, vars2, vars5>> /\ Observe

\* the Sender of the input channel is dropped
PeerDropSender ==
    /\ io.input.senderAlive
    /\ io' = [io EXCEPT !.input.senderAlive = FALSE]
    /\ UNCHANGED vm
    /\ UNCHANGED <<program, vars7, vars2, vars5>> /\ Observe

\* recv_out yields the next output
PeerRecv ==
    /\ io.output.receiverAlive
    /\ io.output.queue # <<>>
    /\ io' = [io EXCEPT !.output = ChanRecv(@, Peer)]
    /\ UNCHANGED vm
    /\ UNCHANGED <<program, vars7, vars2, vars5>> /\ Observe

\* the Receiver of the output channel is dropped
PeerDropReceiver ==
    /\ io.output.receiverAlive
    /\ io' = [io EXCEPT !.output.receiverAlive = FALSE]
    /\ UNCHANGED vm
    /\ UNCHANGED <<program, vars7, vars2, vars5>> /\ Observe

Peer9 ==
    \/ \E v \in InputValues : PeerSend(v)
    \/ PeerDropSender
    \/ PeerRecv
    \/ PeerDropReceiver

-----------------------------------------------------------------------------
(* day2 main: one trial of the noun/verb search, lines 15-38 *)

\* day2 state while another program is the one running
None2 == [noun |-> 0, verb |-> 0, memory |-> <<>>, pc |-> 0,
          status |-> "none", printed |-> <<>>]
Idle2 == day2 = None2

\* lines 15-20: input.clone() with noun and verb stored at addresses 1 and 2
Trial2(input, noun, verb) ==
    [noun |-> noun, verb |-> verb,
     memory |-> [a \in 0..(Len(input) - 1) |->
                   IF a = 1 THEN noun ELSE IF a = 2 THEN verb ELSE input[a + 1]],
     pc |-> 0, status |-> "running", printed |-> <<>>]

\* the two op codes the wrong way round
Op2Swapped(code, a, b) == IF code = 1 THEN a * b ELSE a + b

\* lines 26-28: the match on memory[pc], for the op codes 1 and 2
Op2(code, a, b) == IF code = 1 THEN a + b ELSE a * b

\* an iteration of the while loop panics: an index out of bounds at lines
\* 21-24 or 27-28, or the op code is neither 1 nor 2 (line 29)
Panics2(m, pc) ==
    \/ ~InBounds(m, pc)
    \/ /\ m[pc] # 99
       /\ \/ ~InBounds(m, pc + 1) \/ ~InBounds(m, pc + 2) \/ ~InBounds(m, pc + 3)
          \/ ~InBounds(m, m[pc + 1])
          \/ ~InBounds(m, m[pc + 2])
          \/ m[pc] \notin {1, 2}
          \/ ~InBounds(m, m[pc + 3])

\* lines 21-32: one iteration of the loop
Step2 ==
    /\ day2.status = "running"
    /\ ~Panics2(day2.memory, day2.pc)
    /\ day2.memory[day2.pc] # 99
    /\ LET m == day2.memory
           pc == day2.pc
           a == m[m[pc + 1]]
           b == m[m[pc + 2]]
           position == m[pc + 3]
       IN  day2' = [day2 EXCEPT !.memory[position] = Op2(m[pc], a, b),
                                !.pc = pc + 4]
    /\ UNCHANGED <<program, vars7, vars9, vars5>> /\ Observe

\* the thread panics and the process ends
Panic2 ==
    /\ day2.status = "running"
    /\ Panics2(day2.memory, day2.pc)
    /\ day2' = [day2 EXCEPT !.status = "panicked"]
    /\ UNCHANGED <<program, vars7, vars9, vars5>> /\ Observe

\* lines 21 and 35-38: memory[pc] is 99, the loop ends; the answer is printed
\* when memory[0] is the value searched for
Halt2 ==
    /\ day2.status = "running"
    /\ ~Panics2(day2.memory, day2.pc)
    /\ day2.memory[day2.pc] = 99
    /\ day2' = [day2 EXCEPT
                  !.status = "halted",
                  !.printed = IF day2.memory[0] = 19690720
                              THEN <<100 * day2.noun + day2.verb>> ELSE <<>>]
    /\ UNCHANGED <<program, vars7, vars9, vars5>> /\ Observe

Next2 == Step2 \/ Panic2 \/ Halt2

\* inputs of day2: the puzzle's examples and two more
Programs2 ==
    {<<1, 0, 0, 0, 99>>,
     <<2, 3, 0, 3, 99>>,
     <<2, 4, 4, 5, 99, 0>>,
     <<1, 1, 1, 4, 99, 5, 6, 0, 99>>,
     <<1, 9, 10, 3, 2, 3, 11, 0, 99, 30, 40, 50>>}

\* nouns and verbs of the trials the model follows (the loops run over 0..98)
NounsVerbs == {0, 1, 3, 9, 10}

-----------------------------------------------------------------------------
(* day5: decoder and evaluate(memory, input), lines 10-174 *)

\* impl FromStr for Mode (day5)
Mode_from_str5(ch) == IF ch = "1" THEN "Immediate" ELSE "Position"

\* Instruction::parameters (day5)
parameters5(op) ==
    CASE op \in {"Add", "Mul"} -> 3
      [] op \in {"Input", "Output"} -> 1
      [] op \in {"JumpTrue", "JumpFalse"} -> 2
      [] op \in {"LessThan", "Equals"} -> 3

\* the match on op_code at the end of from_str (day5)
OpOfChar5(ch) ==
    CASE ch = "1" -> "Add"
      [] ch = "2" -> "Mul"
      [] ch = "3" -> "Input"
      [] ch = "4" -> "Output"
      [] ch = "5" -> "JumpTrue"
      [] ch = "6" -> "JumpFalse"
      [] ch = "7" -> "LessThan"
      [] ch = "8" -> "Equals"
      [] OTHER -> "Unknown"

\* impl FromStr for Instruction (day5)
Instruction_from_str5(s) ==
    LET chars == Rev(s)
        modes == [k \in 1..3 |->
                    IF Len(chars) >= k + 2 THEN Mode_from_str5(chars[k + 2])
                    ELSE "Position"]
    IN  IF Len(chars) = 0
        THEN [ok |-> FALSE, op |-> "Unknown", ch |-> "none", modes |-> <<>>]
        ELSE LET op == OpOfChar5(chars[1]) IN
             IF op = "Unknown"
             THEN [ok |-> FALSE, op |-> op, ch |-> chars[1], modes |-> <<>>]
             ELSE [ok |-> TRUE, op |-> op, ch |-> chars[1],
                   modes |-> SubSeq(modes, 1, parameters5(op))]

\* Ok(diagnostic_code)
Ok5(d) == [kind |-> "ok", val |-> d, ch |-> ""]

\* day5 state while another program is the one running
None5 == [mem |-> <<>>, pc |-> 0, diagnostic_code |-> 0, input |-> 0,
          status |-> "none", result |-> Running, outputs |-> <<>>]
Idle5 == day5 = None5

\* lines 100-102: evaluate is entered; outputs is the history of the values
\* assigned to diagnostic_code
Start5(p, input) ==
    [mem |-> Clone(p), pc |-> 0, diagnostic_code |-> 0, input |-> input,
     status |-> "running", result |-> Running, outputs |-> <<>>]

\* every read operand taken as an address, whatever its mode digit
Value5AllPosition(mem, pc, k, mode) ==
    IF ~InBounds(mem, pc + k) THEN [ok |-> FALSE, v |-> 0]
    ELSE IF InBounds(mem, mem[pc + k]) THEN [ok |-> TRUE, v |-> mem[mem[pc + k]]]
    ELSE [ok |-> FALSE, v |-> 0]

\* the match on a read operand's Mode, lines 113-120 and 149-156
Value5(mem, pc, k, mode) ==
    IF ~InBounds(mem, pc + k) THEN [ok |-> FALSE, v |-> 0]
    ELSE IF mode = "Immediate" THEN [ok |-> TRUE, v |-> mem[pc + k]]
    ELSE IF InBounds(mem, mem[pc + k]) THEN [ok |-> TRUE, v |-> mem[mem[pc + k]]]
    ELSE [ok |-> FALSE, v |-> 0]

\* the match on a location operand's Mode, lines 129-132 and 137-140
Location5(mem, pc, k, mode) ==
    IF mode = "Immediate" THEN [ok |-> TRUE, v |-> pc + k]
    ELSE IF InBounds(mem, pc + k) THEN [ok |-> TRUE, v |-> mem[pc + k]]
    ELSE [ok |-> FALSE, v |-> 0]

\* line 105: the instruction decoded from memory[pc]
Decoded5(e) == Instruction_from_str5(to_string(e.mem[e.pc]))

\* the iteration reads memory[pc] and it is not 99
AtInstr5(e) == e.status = "running" /\ InBounds(e.mem, e.pc) /\ e.mem[e.pc] # 99

\* the iteration decodes an instruction of kind ops
At5(e, ops) == AtInstr5(e) /\ Decoded5(e).ok /\ Decoded5(e).op \in ops

\* an index out of bounds met by the iteration
IndexPanics5(e) ==
    \/ ~InBounds(e.mem, e.pc)
    \/ /\ AtInstr5(e)
       /\ Decoded5(e).ok
       /\ LET d == Decoded5(e)
              m == d.modes
          IN  CASE d.op \in ArithOps ->
                     \/ ~Value5(e.mem, e.pc, 1, m[1]).ok
                     \/ ~Value5(e.mem, e.pc, 2, m[2]).ok
                     \/ ~Location5(e.mem, e.pc, 3, m[3]).ok
                     \/ ~InBounds(e.mem, Location5(e.mem, e.pc, 3, m[3]).v)
                [] d.op \in {"Input", "Output"} ->
                     \/ ~Location5(e.mem, e.pc, 1, m[1]).ok
                     \/ ~InBounds(e.mem, Location5(e.mem, e.pc, 1, m[1]).v)
                [] OTHER ->
                     \/ ~Value5(e.mem, e.pc, 1, m[1]).ok
                     \/ ~Value5(e.mem, e.pc, 2, m[2]).ok

\* the halt returning 0 whatever was output
Halt5ReturnsZero ==
    /\ day5.status = "running"
    /\ InBounds(day5.mem, day5.pc)
    /\ day5.mem[day5.pc] = 99
    /\ day5' = [day5 EXCEPT !.status = "returned", !.result = Ok5(0)]
    /\ UNCHANGED <<program, vars7, vars9, vars2>> /\ Observe

\* lines 104 and 173: memory[pc] is 99, Ok(diagnostic_code)
Halt5 ==
    /\ day5.status = "running"
    /\ InBounds(day5.mem, day5.pc)
    /\ day5.mem[day5.pc] = 99
    /\ day5' = [day5 EXCEPT !.status = "returned",
                            !.result = Ok5(day5.diagnostic_code)]
    /\ UNCHANGED <<program, vars7, vars9, vars2>> /\ Observe

\* line 105: Instruction::from_str(...)? fails
DecodeError5 ==
    /\ AtInstr5(day5)
    /\ ~Decoded5(day5).ok
    /\ day5' = [day5 EXCEPT !.status = "returned",
                            !.result = ErrOpCode(Decoded5(day5).ch)]
    /\ UNCHANGED <<program, vars7, vars9, vars2>> /\ Observe

\* an index out of bounds panics
Panic5 ==
    /\ day5.status = "running"
    /\ IndexPanics5(day5)
    /\ day5' = [day5 EXCEPT !.status = "returned", !.result = Panicked]
    /\ UNCHANGED <<program, vars7, vars9, vars2>> /\ Observe

\* lines 109-135: Add, Mul, LessThan, Equals
Arith5 ==
    /\ At5(day5, ArithOps)
    /\ ~IndexPanics5(day5)
    /\ LET d == Decoded5(day5)
           a == Value5(day5.mem, day5.pc, 1, d.modes[1]).v
           b == Value5(day5.mem, day5.pc, 2, d.modes[2]).v
           location == Location5(day5.mem, day5.pc, 3, d.modes[3]).v
       IN  day5' = [day5 EXCEPT !.mem[location] = ArithResult(d.op, a, b),
                                !.pc = @ + parameters5(d.op) + 1]
    /\ UNCHANGED <<program, vars7, vars9, vars2>> /\ Observe

\* lines 136-143: Input, memory[location] = input
Input5 ==
    /\ At5(day5, {"Input"})
    /\ ~IndexPanics5(day5)
    /\ LET d == Decoded5(day5)
           location == Location5(day5.mem, day5.pc, 1, d.modes[1]).v
       IN  day5' = [day5 EXCEPT !.mem[location] = day5.input,
                                !.pc = @ + parameters5(d.op) + 1]
    /\ UNCHANGED <<program, vars7, vars9, vars2>> /\ Observe

\* lines 136-146: Output, diagnostic_code = memory[location]
Output5 ==
    /\ At5(day5, {"Output"})
    /\ ~IndexPanics5(day5)
    /\ LET d == Decoded5(day5)
           location == Location5(day5.mem, day5.pc, 1, d.modes[1]).v
       IN  day5' = [day5 EXCEPT !.diagnostic_code = day5.mem[location],
                                !.outputs = Append(@, day5.mem[location]),
                                !.pc = @ + parameters5(d.op) + 1]
    /\ UNCHANGED <<program, vars7, vars9, vars2>> /\ Observe

\* lines 148-167: JumpTrue, JumpFalse
Jump5 ==
    /\ At5(day5, JumpOps)
    /\ ~IndexPanics5(day5)
    /\ LET d == Decoded5(day5)
           a == Value5(day5.mem, day5.pc, 1, d.modes[1]).v
           jmp == Value5(day5.mem, day5.pc, 2, d.modes[2]).v
       IN  day5' = [day5 EXCEPT !.pc =
                      IF JumpCond(d.op, a) THEN jmp ELSE @ + parameters5(d.op) + 1]
    /\ UNCHANGED <<program, vars7, vars9, vars2>> /\ Observe

Next5 ==
    \/ Halt5
    \/ DecodeError5
    \/ Panic5
    \/ Arith5
    \/ Input5
    \/ Output5
    \/ Jump5

\* tests::input_memory, lines 180-187: the bundled diagnostic program
DiagnosticProgram ==
    <<
      3, 225, 1, 225, 6, 6, 1100, 1, 238, 225, 104, 0, 1101, 82, 10, 225,
      101, 94, 44, 224, 101, -165, 224, 224, 4, 224, 1002, 223, 8, 223,
      101, 3, 224, 224, 1, 224, 223, 223, 1102, 35, 77, 225, 1102, 28, 71,
      225, 1102, 16, 36, 225, 102, 51, 196, 224, 101, -3468, 224, 224, 4,
      224, 102, 8, 223, 223, 1001, 224, 7, 224, 1, 223, 224, 223, 1001,
      48, 21, 224, 101, -57, 224, 224, 4, 224, 1002, 223, 8, 223, 101, 6,
      224, 224, 1, 223, 224, 223, 2, 188, 40, 224, 1001, 224, -5390, 224,
      4, 224, 1002, 223, 8, 223, 101, 2, 224, 224, 1, 224, 223, 223, 1101,
      9, 32, 224, 101, -41, 224, 224, 4, 224, 1002, 223, 8, 223, 1001,
      224, 2, 224, 1, 223, 224, 223, 1102, 66, 70, 225, 1002, 191, 28,
      224, 101, -868, 224, 224, 4, 224, 102, 8, 223, 223, 101, 5, 224,
      224, 1, 224, 223, 223, 1, 14, 140, 224, 101, -80, 224, 224, 4, 224,
      1002, 223, 8, 223, 101, 2, 224, 224, 1, 224, 223, 223, 1102, 79, 70,
      225, 1101, 31, 65, 225, 1101, 11, 68, 225, 1102, 20, 32, 224, 101,
      -640, 224, 224, 4, 224, 1002, 223, 8, 223, 1001, 224, 5, 224, 1,
      224, 223, 223, 4, 223, 99, 0, 0, 0, 677, 0, 0, 0, 0, 0, 0, 0, 0, 0,
      0, 0, 1105, 0, 99999, 1105, 227, 247, 1105, 1, 99999, 1005, 227,
      99999, 1005, 0, 256, 1105, 1, 99999, 1106, 227, 99999, 1106, 0, 265,
      1105, 1, 99999, 1006, 0, 99999, 1006, 227, 274, 1105, 1, 99999,
      1105, 1, 280, 1105, 1, 99999, 1, 225, 225, 225, 1101, 294, 0, 0,
      105, 1, 0, 1105, 1, 99999, 1106, 0, 300, 1105, 1, 99999, 1, 225,
      225, 225, 1101, 314, 0, 0, 106, 0, 0, 1105, 1, 99999, 8, 226, 226,
      224, 1002, 223, 2, 223, 1006, 224, 329, 101, 1, 223, 223, 1008, 677,
      677, 224, 102, 2, 223, 223, 1006, 224, 344, 101, 1, 223, 223, 1107,
      226, 677, 224, 102, 2, 223, 223, 1005, 224, 359, 101, 1, 223, 223,
      1008, 226, 226, 224, 1002, 223, 2, 223, 1006, 224, 374, 1001, 223,
      1, 223, 1108, 677, 226, 224, 1002, 223, 2, 223, 1006, 224, 389,
      1001, 223, 1, 223, 7, 677, 226, 224, 1002, 223, 2, 223, 1006, 224,
      404, 101, 1, 223, 223, 7, 226, 226, 224, 1002, 223, 2, 223, 1005,
      224, 419, 101, 1, 223, 223, 8, 226, 677, 224, 1002, 223, 2, 223,
      1006, 224, 434, 1001, 223, 1, 223, 7, 226, 677, 224, 1002, 223, 2,
      223, 1006, 224, 449, 1001, 223, 1, 223, 107, 226, 677, 224, 1002,
      223, 2, 223, 1005, 224, 464, 1001, 223, 1, 223, 1007, 677, 677, 224,
      102, 2, 223, 223, 1005, 224, 479, 101, 1, 223, 223, 1007, 226, 226,
      224, 102, 2, 223, 223, 1005, 224, 494, 1001, 223, 1, 223, 1108, 226,
      677, 224, 102, 2, 223, 223, 1005, 224, 509, 101, 1, 223, 223, 1008,
      677, 226, 224, 102, 2, 223, 223, 1005, 224, 524, 1001, 223, 1, 223,
      1007, 677, 226, 224, 102, 2, 223, 223, 1005, 224, 539, 101, 1, 223,
      223, 1108, 226, 226, 224, 1002, 223, 2, 223, 1005, 224, 554, 101, 1,
      223, 223, 108, 226, 226, 224, 102, 2, 223, 223, 1005, 224, 569, 101,
      1, 223, 223, 108, 677, 677, 224, 102, 2, 223, 223, 1005, 224, 584,
      101, 1, 223, 223, 1107, 226, 226, 224, 1002, 223, 2, 223, 1006, 224,
      599, 101, 1, 223, 223, 8, 677, 226, 224, 1002, 223, 2, 223, 1006,
      224, 614, 1001, 223, 1, 223, 108, 677, 226, 224, 102, 2, 223, 223,
      1006, 224, 629, 1001, 223, 1, 223, 1107, 677, 226, 224, 1002, 223,
      2, 223, 1006, 224, 644, 1001, 223, 1, 223, 107, 677, 677, 224, 102,
      2, 223, 223, 1005, 224, 659, 101, 1, 223, 223, 107, 226, 226, 224,
      102, 2, 223, 223, 1006, 224, 674, 1001, 223, 1, 223, 4, 223, 99, 226
    >>

-----------------------------------------------------------------------------
(* Programs the day9 model runs *)

\* relative base 10; read into base+0; output base+0; halt
RelativeProgram == <<109, 10, 203, 0, 204, 0, 99>>

\* read x; if x is nonzero output x, else output 0 and then x; halt
BranchProgram == <<3, 20, 1005, 20, 7, 104, 0, 4, 20, 99>>

\* 2 + 3, times -1, output, then run into unwritten memory (word 0)
ArithProgram == <<1101, 2, 3, 20, 1002, 20, -1, 20, 4, 20>>

Programs9 == {RelativeProgram, BranchProgram, ArithProgram}

\* day7 state while the day9 program is the one running
Idle7 ==
    /\ mainpc = "none"
    /\ permIdx = 0
    /\ max_thruster_signal = 0
    /\ printed = <<>>
    /\ diagnostics = <<>>
    /\ eng = [i \in Engines |-> NoEngine]
    /\ chan = [p \in Ports |-> NoChan]

\* lines 247-257: the program is parsed, the channels made, Intcode::new
Init9 ==
    /\ program \in Programs9
    /\ vm = Intcode_new(program)
    /\ io = [input |-> NewChan(<<>>), output |-> NewChan(<<>>)]
    /\ Idle7
    /\ Idle2 /\ Idle5 /\ NoTrace

Next9 == Engine9 \/ Peer9

Spec9 == Init9 /\ [][Next9]_vars

-----------------------------------------------------------------------------
(* day9 state while the day7 program is the one running *)

Idle9 ==
    /\ vm = [memory |-> <<>>, pc |-> 0, relative_base |-> 0,
             status |-> "none", result |-> Running]
    /\ io = [input |-> NoChan, output |-> NoChan]

-----------------------------------------------------------------------------
(* Specification of the day7 program *)

Init == Init7 /\ Idle9 /\ Idle2 /\ Idle5 /\ NoTrace

Next ==
    \/ Main7
    \/ \E i \in Engines : EngineStep7(i)

Spec == Init /\ [][Next]_vars

\* the steps that end a thread's run: a recv that can only fail returns, and
\* an evaluate that has returned drops its Receiver
EndOfRun == \E i \in Engines : Input7Fail(i) \/ DropInput7(i)

\* the same steps of the day9 thread
EndOfRun9 == Input9Fail \/ DropIntcodeInput \/ DropIntcodeOutput

\* either program of the repository
InitBoth == Init \/ Init9

NextBoth == Next \/ Next9

SpecBoth == InitBoth /\ [][NextBoth]_vars

-----------------------------------------------------------------------------
(* One-instruction programs: a word at address 0 in front of fixed operands *)

\* instruction words: every op code with and without the padding zero, with
\* mode digits, with other tens digits, negative, and words that are no op code
Words ==
    {1, 2, 3, 4, 5, 6, 7, 8, 9, 99,
     101, 1002, 1101, 1102, 11101, 21002, 2201, 301, 111101,
     103, 203, 104, 204, 1005, 1105, 105, 1006, 1106, 2106,
     1107, 107, 1008, 2208, 109, 209,
     0, 10, 20, 90, 100, 1000,
     11, 12, 13, 24, 35, 46, 57, 68, 79, 91, 98, 199, 1099, 1199,
     -1, -4, -99, -10}

\* the word, three operands (addresses 8, 9, 10), halts wherever the next
\* instruction starts that is not reached by a jump, then the data 3, 4, 0
WordProgram(w) == <<w, 8, 9, 10, 99, 99, 99, 99, 3, 4, 0>>

WordPrograms == {WordProgram(w) : w \in Words}

\* lines 247-257 with such a program
InitWords ==
    /\ program \in WordPrograms
    /\ vm = Intcode_new(program)
    /\ io = [input |-> NewChan(<<>>), output |-> NewChan(<<>>)]
    /\ Idle7
    /\ Idle2 /\ Idle5 /\ NoTrace

\* instruction words with a character other than 0, 1, 2 in a mode position:
\* the digits 3 to 9 and the minus sign of a negative word
ModeWords == {3401, 90004, 45604, 7105, 30006, 508, 309, -104, -2101, -1001, -101, -106}

ModeWordPrograms == {WordProgram(w) : w \in ModeWords}

\* lines 247-257 with such a program
InitModeWords ==
    /\ program \in ModeWordPrograms
    /\ vm = Intcode_new(program)
    /\ io = [input |-> NewChan(<<>>), output |-> NewChan(<<>>)]
    /\ Idle7
    /\ Idle2 /\ Idle5 /\ NoTrace

\* read the phase setting; JumpTrue on it (fires) over a 99; JumpFalse on it
\* (does not fire); read the signal; JumpTrue on it; output it; halt
JumpProgram == <<3, 0, 1005, 0, 6, 99, 1006, 0, 5, 3, 1, 1005, 1, 14, 4, 1, 99>>

\* day7 main started on the jump program
InitJumps ==
    /\ program = JumpProgram
    /\ mainpc = "loop"
    /\ permIdx = 0
    /\ max_thruster_signal = 0
    /\ printed = <<>>
    /\ diagnostics = <<>>
    /\ eng = [i \in Engines |-> NoEngine]
    /\ chan = [p \in Ports |-> NoChan]
    /\ Idle9
    /\ Idle2 /\ Idle5 /\ NoTrace

\* lines 7-20, at the start of the trial (noun, verb)
Init2 ==
    /\ program \in Programs2
    /\ \E noun \in NounsVerbs, verb \in NounsVerbs :
          day2 = Trial2(program, noun, verb)
    /\ Idle7
    /\ Idle9
    /\ Idle5 /\ NoTrace

\* the day9 program on the inputs of day2, as they are at the start of a trial
InitArith9 ==
    /\ \E input \in Programs2, noun \in NounsVerbs, verb \in NounsVerbs :
          program = [a \in 1..Len(input) |->
                        Trial2(input, noun, verb).memory[a - 1]]
    /\ vm = Intcode_new(program)
    /\ io = [input |-> NewChan(<<>>), output |-> NewChan(<<>>)]
    /\ Idle7
    /\ Idle2 /\ Idle5 /\ NoTrace

\* operand values of the comparison programs
CompareValues == {-3, -1, 0, 2}

\* one LessThan (1107, 7) or Equals (1108, 8) writing to address 5, then Halt
CompareProgram(w, a, b) == <<w, a, b, 5, 99, 7>>

\* the same on two values read through Input, in Position mode
CompareInputs(w) == <<3, 9, 3, 10, w, 9, 10, 11, 99, 0, 0, 5>>

ComparePrograms ==
    {CompareProgram(w, a, b) : w \in {1107, 1108}, a \in CompareValues, b \in CompareValues}
    \cup {CompareInputs(7), CompareInputs(8)}

\* the day9 program on the comparison programs
InitCompare ==
    /\ program \in ComparePrograms
    /\ vm = Intcode_new(program)
    /\ io = [input |-> NewChan(<<>>), output |-> NewChan(<<>>)]
    /\ Idle7
    /\ Idle2 /\ Idle5 /\ NoTrace

\* relative bases and offsets of the relative-mode programs
Bases == {-4, 30, 50}
Offsets == {-2, 7}

\* base k; read into base+o; output base+o; halt
RelativeInput(k, o) == <<109, k, 203, o, 204, o, 99>>

\* base k, then k more; read into base+o; output base+o; halt
RelativeTwice(k, o) == <<109, k, 109, k, 203, o, 204, o, 99>>

\* base k; read into base+o; add 0 to the word at base+o into 20; output 20
RelativeRead(k, o) == <<109, k, 203, o, 1201, o, 0, 20, 4, 20, 99>>

\* base k; -5 + 0 into base+o; output base+o; halt
RelativeAdd(k, o) == <<109, k, 21101, -5, 0, o, 204, o, 99>>

RelativePrograms ==
    UNION {{RelativeInput(k, o), RelativeTwice(k, o), RelativeRead(k, o),
            RelativeAdd(k, o)} : k \in Bases, o \in Offsets}

\* the day9 program on the relative-mode programs
InitRelative ==
    /\ program \in RelativePrograms
    /\ vm = Intcode_new(program)
    /\ io = [input |-> NewChan(<<>>), output |-> NewChan(<<>>)]
    /\ Idle7
    /\ Idle2 /\ Idle5 /\ NoTrace

\* addresses outside the program: below 0, next to its end, far past it
FarAddresses == {-7, 9, 1000000, 2147483647}

\* an address no program of the model writes
Unwritten == 77777

\* output the word at a; read into a; output a; output the word at Unwritten
SparseProgram(a) == <<4, a, 3, a, 4, a, 4, Unwritten, 99>>

\* 2 + 3 into a; output a; halt
SparseAdd(a) == <<1101, 2, 3, a, 4, a, 99>>

SparsePrograms == {SparseProgram(a) : a \in FarAddresses} \cup {SparseAdd(a) : a \in FarAddresses}

\* the day9 program on the programs that use addresses outside themselves
InitSparse ==
    /\ program \in SparsePrograms
    /\ vm = Intcode_new(program)
    /\ io = [input |-> NewChan(<<>>), output |-> NewChan(<<>>)]
    /\ Idle7
    /\ Idle2 /\ Idle5 /\ NoTrace

\* inputs of day5's evaluate
Inputs5 == {0, 1, 5}

\* programs day5's evaluate is run on
Programs5 == Programs7 \cup {JumpProgram, DiagnosticProgram}

\* tests::test_part_1, test_part_2 (lines 189-203): evaluate(&mut memory, input);
\* the diagnostic program is run on the inputs of the tests
Init5 ==
    /\ program \in Programs5
    /\ \E input \in Inputs5 :
          /\ program = DiagnosticProgram => input \in {1, 5}
          /\ day5 = Start5(program, input)
    /\ Idle7
    /\ Idle9
    /\ Idle2
    /\ NoTrace

\* read x; x + 5; output; halt
SameAddOutput == <<3, 9, 1001, 9, 5, 9, 4, 9, 99, 0>>

\* read x; if x = 0 skip the next; x < 2; output; halt
SameBranch == <<3, 13, 1006, 13, 9, 1007, 13, 2, 13, 4, 13, 99, 0, 0>>

\* read x twice; x = x into address 0; output it; halt
SameEquals == <<3, 0, 3, 1, 8, 0, 1, 0, 4, 0, 99>>

\* the third example of day2: op codes 1, 2 and 99 only
SameArith == <<1, 9, 10, 3, 2, 3, 11, 0, 99, 30, 40, 50>>

\* read x into the operand itself; 2 + 3 into the operand itself; output both
SameImmediate == <<103, 0, 11101, 2, 3, 0, 4, 1, 4, 5, 99>>

\* programs of op codes 1-8 and 99, modes 0 and 1, addresses inside the program
CommonPrograms == {SameAddOutput, SameBranch, SameEquals, SameArith, SameImmediate}

\* the value every Input of a common run receives
SameInputs == {-1, 0, 2}

\* the same program handed to day9's Intcode::new and evaluate, to day7's
\* evaluate (engine A's thread, its two ports as the caller made them) and to
\* day5's evaluate, each Input receiving x; the day2 loop runs it too when it
\* is made of op codes 1, 2 and 99. The steps are recorded in hist.
InitSame ==
    /\ program \in CommonPrograms
    /\ \E x \in SameInputs :
          /\ vm = Intcode_new(program)
          /\ io = [input |-> NewChan(<<x, x>>), output |-> NewChan(<<>>)]
          /\ eng = [i \in Engines |->
                      IF i = 0
                      THEN [mem |-> Clone(program), pc |-> 0,
                            status |-> "running", result |-> Running]
                      ELSE NoEngine]
          /\ chan = [p \in Ports |->
                       IF p = Wiring(0).inp THEN NewChan(<<x, x>>)
                       ELSE IF p = Wiring(0).out THEN NewChan(<<>>)
                       ELSE NoChan]
          /\ day5 = Start5(program, x)
    /\ day2 = IF program = SameArith
              THEN Trial2(program, program[2], program[3])
              ELSE None2
    /\ mainpc = "none"
    /\ permIdx = 0
    /\ max_thruster_signal = 0
    /\ printed = <<>>
    /\ diagnostics = <<>>
    /\ hist = [NoHist EXCEPT !.on = TRUE]

\* the day7 program, the day9 program, the day9 program on single words, on the
\* inputs of day2, on the comparison, the relative-mode and the sparse-memory
\* programs, the day2 program, day5's evaluate, and the common runs
InitAll ==
    Init \/ InitJumps \/ Init9 \/ InitWords \/ InitArith9 \/ Init2 \/ InitCompare
    \/ InitRelative \/ InitSparse \/ Init5 \/ InitSame \/ InitModeWords

NextAll == NextBoth \/ Next2 \/ Next5

SpecAll == InitAll /\ [][NextAll]_vars

-----------------------------------------------------------------------------
(* day9 main as the holder of the other two channel ends, lines 252-265 *)

\* line 253: the one value main sends before the engine's thread is spawned
MainInput == 2

\* lines 262-264: recv_out.iter() yields the next output, println!
Main9Recv ==
    /\ io.output.receiverAlive
    /\ io.output.queue # <<>>
    /\ io' = [io EXCEPT !.output = ChanRecv(@, Peer)]
    /\ UNCHANGED vm
    /\ UNCHANGED <<program, vars7, vars2, vars5>> /\ Observe

\* lines 262-265: the iterator ends (nothing queued, the Sender dropped), main
\* returns and its send_in and recv_out are dropped
Main9End ==
    /\ io.output.receiverAlive
    /\ io.output.queue = <<>>
    /\ ~io.output.senderAlive
    /\ io' = [io EXCEPT !.output.receiverAlive = FALSE,
                        !.input.senderAlive = FALSE]
    /\ UNCHANGED vm
    /\ UNCHANGED <<program, vars7, vars2, vars5>> /\ Observe

\* programs the driver is run on
DriverPrograms ==
    Programs9 \cup RelativePrograms \cup SparsePrograms \cup ComparePrograms
    \cup {JumpProgram}

\* lines 246-261: the program parsed, send_in.send(2), Intcode::new, the spawn
InitDriver ==
    /\ program \in DriverPrograms
    /\ vm = Intcode_new(program)
    /\ io = [input |-> NewChan(<<MainInput>>), output |-> NewChan(<<>>)]
    /\ Idle7
    /\ Idle2 /\ Idle5 /\ NoTrace

\* the engine's thread and main. main keeps send_in and recv_out until its loop
\* has ended, and the loop ends only after the engine's Sender is dropped: the
\* recv of an Input cannot fail and the send of an Output cannot fail while the
\* engine runs, so those two arms of step are not among the steps.
NextDriver ==
    \/ Halt9
    \/ DecodeError9
    \/ Arith9
    \/ Input9Recv
    \/ Output9Send
    \/ Jump9
    \/ AdjRelative9
    \/ DropIntcodeInput
    \/ DropIntcodeOutput
    \/ Main9Recv
    \/ Main9End

SpecDriver == InitDriver /\ [][NextDriver]_vars

\* the engines run on OS threads (thread::spawn, and the main thread for E): a
\* thread that can take such a step is scheduled and takes it
FairSpec == SpecBoth /\ WF_vars(EndOfRun) /\ WF_vars(EndOfRun9)

-----------------------------------------------------------------------------
(* Claims *)

\* the steps of engine i that are its own (not the end of the process, not the
\* start of the next run)
OwnStep7(i) == eng'[i] # eng[i] /\ eng'[i].status \notin {"created", "killed"}

C1_Step7(i) ==
    (/\ At7(eng[i], {"Output"})
     /\ ~IndexPanics7(eng[i])
     /\ ~chan[Wiring(i).out].receiverAlive
     /\ OwnStep7(i))
    => /\ eng'[i].status = "returned"
       /\ eng'[i].result = OkSome(OutputValue7(eng[i]))
       /\ eng'[i].mem = eng[i].mem
       /\ eng'[i].pc = eng[i].pc
       /\ chan'[Wiring(i).out].sent = chan[Wiring(i).out].sent

C1_After7(i) ==
    (eng[i].result.kind = "some" /\ eng'[i].status \notin {"created", "killed"})
    => /\ eng'[i].result = eng[i].result
       /\ eng'[i].mem = eng[i].mem
       /\ eng'[i].pc = eng[i].pc
       /\ eng'[i].status \in {"returned", "finished"}
       /\ chan'[Wiring(i).out].sent = chan[Wiring(i).out].sent
       /\ chan'[Wiring(i).inp].received = chan[Wiring(i).inp].received

C1_Step9 ==
    (At9(vm, {"Output"}) /\ ~io.output.receiverAlive /\ vm' # vm)
    => /\ vm'.status = "returned"
       /\ vm'.result = OkSome(OutputValue(vm))
       /\ vm'.memory = vm.memory
       /\ vm'.pc = vm.pc
       /\ vm'.relative_base = vm.relative_base
       /\ io'.output.sent = io.output.sent

C1_After9 ==
    vm.result.kind = "some"
    => /\ vm'.result = vm.result
       /\ vm'.memory = vm.memory
       /\ vm'.pc = vm.pc
       /\ vm'.relative_base = vm.relative_base
       /\ vm'.status # "running"
       /\ io'.output.sent = io.output.sent
       /\ io'.input.received = io.input.received

\* C1: an engine that executes Output while the receiving end of its output
\* channel is dropped ends its run at once with Ok(Some(v)), v the value of the
\* Output operand: nothing is sent, memory, pc and relative base stay as they
\* were, and no further instruction is executed (day7 evaluate and day9
\* step/evaluate alike).
C1_ClosedPortTermination ==
    [][/\ \A i \in Engines : C1_Step7(i) /\ C1_After7(i)
       /\ C1_Step9
       /\ C1_After9]_vars

\* engine E has ended its run on a closed port, with the value it read there
C1_Witness ==
    /\ eng[EngineE].status = "finished"
    /\ eng[EngineE].result.kind = "some"
    /\ ~chan[Wiring(EngineE).out].receiverAlive
    /\ At7([eng[EngineE] EXCEPT !.status = "running"], {"Output"})

\* the programs of the model in which every engine halts on 99 after its last Output
HaltingPrograms == {IdentityProgram, FeedbackProgram, DecrementProgram}

\* C2: for a program whose engines all reach 99 after their last Output, engine
\* E's evaluate returns Some(v) and never None, whatever the interleaving.
C2_LastEngineYieldsSome ==
    (program \in HaltingPrograms /\ eng[EngineE].status \in {"returned", "finished"})
    => eng[EngineE].result.kind = "some"


\* the engine whose output channel engine i reads
Upstream(i) == (i + 4) % 5

\* engine j's evaluate has been left
Ended7(j) == eng[j].status \in {"returned", "finished"}

\* engine i waits in input.recv(): nothing is queued
BlockedOnInput7(i) ==
    /\ At7(eng[i], {"Input"})
    /\ ~IndexPanics7(eng[i])
    /\ chan[Wiring(i).inp].queue = <<>>

\* engine i waits on Input behind an engine whose run has ended
Stuck7(i) == Ended7(Upstream(i)) /\ BlockedOnInput7(i)

\* the only way out of that wait is the input error (or the end of the process,
\* or main starting the next run)
C3_WayOut(i) ==
    (Stuck7(i) /\ eng'[i] # eng[i])
    => (eng'[i].result.kind = "input" \/ eng'[i].status \in {"created", "killed"})

\* the day9 engine waits on Input with nothing queued and the Sender dropped
Stuck9 ==
    /\ At9(vm, {"Input"})
    /\ io.input.queue = <<>>
    /\ ~io.input.senderAlive

\* C3: when an engine's run has ended its output Sender is dropped and its input
\* Receiver is dropped next (day9: with the Intcode struct, Receiver first),
\* and a downstream engine waiting on Input with nothing queued then fails with
\* the input error: in the end no engine waits on Input behind an ended engine,
\* and no ended engine keeps a channel end.
C3_UpstreamEndUnblocks ==
    /\ [](\A j \in Engines :
            /\ Ended7(j) => ~chan[Wiring(j).out].senderAlive
            /\ eng[j].status = "finished" => ~chan[Wiring(j).inp].receiverAlive)
    /\ [](vm.status = "dropped" =>
            ~io.input.receiverAlive /\ ~io.output.senderAlive)
    /\ [][/\ \A i \in Engines : C3_WayOut(i)
          /\ (Stuck9 /\ vm' # vm) => vm'.result.kind = "input"]_vars
    /\ <>[](/\ \A i \in Engines : ~Stuck7(i) /\ eng[i].status # "returned"
            /\ ~Stuck9
            /\ vm.status \notin {"returned", "dropping"})

\* an engine has failed on Input after the engine upstream of it ended
C3_Witness ==
    \E i \in Engines :
        /\ Ended7(Upstream(i))
        /\ Ended7(i)
        /\ eng[i].result.kind = "input"
        /\ chan[Wiring(i).inp].queue = <<>>

\* the values received are the values sent, oldest first, less those in flight
FifoPort(c) == c.sent = c.received \o c.queue

\* the settings of the permutation the current run was seeded with
CurrentSettings == NthPermutation(PhaseSettings, permIdx - 1)

\* C4: on every port the values received through Input are a prefix of the
\* values sent, in the order sent (the seeds first, then the upstream engine's
\* Outputs), each delivered once; none is received before it was sent.
C4_PortOrdering ==
    /\ \A p \in Ports :
          /\ FifoPort(chan[p])
          /\ chan[p].seeded <= Len(chan[p].sent)
          /\ permIdx >= 1 =>
                SubSeq(chan[p].sent, 1, chan[p].seeded) = Seed(CurrentSettings)[p]
    /\ FifoPort(io.input)
    /\ FifoPort(io.output)

\* A has received its two seeds and then a value engine E sent
C4_Witness ==
    /\ Len(chan[0].received) >= 3
    /\ chan[0].writers = {EngineE}
    /\ chan[0].readers = {0}

C5_Input7(i) ==
    LET e == eng[i]
        c == chan[Wiring(i).inp]
        location == Location7(e.mem, e.pc, 1, Decoded7(e).modes[1]).v
    IN
    (At7(e, {"Input"}) /\ ~IndexPanics7(e) /\ OwnStep7(i))
    => \/ /\ c.queue # <<>>
          /\ chan'[Wiring(i).inp].queue = Tail(c.queue)
          /\ IF InBounds(e.mem, location)
             THEN /\ eng'[i].mem = [e.mem EXCEPT ![location] = Head(c.queue)]
                  /\ eng'[i].pc = e.pc + 2
                  /\ eng'[i].status = "running"
             ELSE eng'[i].result = Panicked
       \/ /\ c.queue = <<>>
          /\ ~c.senderAlive
          /\ eng'[i].result = ErrInput
          /\ eng'[i].status = "returned"
          /\ eng'[i].mem = e.mem
          /\ eng'[i].pc = e.pc

C5_After7(i) ==
    (eng[i].result.kind = "input" /\ eng'[i].status \notin {"created", "killed"})
    => /\ eng'[i].result = eng[i].result
       /\ eng'[i].mem = eng[i].mem
       /\ eng'[i].pc = eng[i].pc
       /\ eng'[i].status \in {"returned", "finished"}
       /\ chan'[Wiring(i).out].sent = chan[Wiring(i).out].sent
       /\ chan'[Wiring(i).inp].received = chan[Wiring(i).inp].received

C5_Input9 ==
    LET location == get_location(vm, 1, Decoded(vm).modes[1]) IN
    (At9(vm, {"Input"}) /\ vm' # vm)
    => \/ /\ io.input.queue # <<>>
          /\ io'.input.queue = Tail(io.input.queue)
          /\ vm'.memory = insert(vm.memory, location, Head(io.input.queue))
          /\ vm'.pc = vm.pc + 2
          /\ vm'.relative_base = vm.relative_base
          /\ vm'.status = "running"
       \/ /\ io.input.queue = <<>>
          /\ ~io.input.senderAlive
          /\ vm'.result = ErrInput
          /\ vm'.status = "returned"
          /\ vm'.memory = vm.memory
          /\ vm'.pc = vm.pc
          /\ vm'.relative_base = vm.relative_base

C5_After9 ==
    vm.result.kind = "input"
    => /\ vm'.result = vm.result
       /\ vm'.memory = vm.memory
       /\ vm'.pc = vm.pc
       /\ vm'.relative_base = vm.relative_base
       /\ vm'.status # "running"
       /\ io'.output.sent = io.output.sent
       /\ io'.input.received = io.input.received

\* C5: an Input instruction acts only when a value is queued, and then writes
\* the oldest queued value to its location operand, or when nothing is queued
\* and the Sender is dropped, and then the run ends with the input error,
\* memory, pc and relative base as they were and no further instruction
\* executed; a queued value is delivered whether or not the Sender is dropped.
C5_InputBlocksOrFails ==
    [][/\ \A i \in Engines : C5_Input7(i) /\ C5_After7(i)
       /\ C5_Input9
       /\ C5_After9]_vars

\* an engine received its queued phase setting and then failed on Input
C5_Witness ==
    \E i \in Engines :
        /\ eng[i].result.kind = "input"
        /\ Len(chan[Wiring(i).inp].received) >= 1
        /\ ~chan[Wiring(i).inp].senderAlive

C6_Closed(p) ==
    permIdx' = permIdx
    => /\ ~chan[p].senderAlive =>
            (~chan'[p].senderAlive /\ chan'[p].sent = chan[p].sent)
       /\ ~chan[p].receiverAlive =>
            (~chan'[p].receiverAlive /\ chan'[p].received = chan[p].received)

\* C6: in every run the only engine that sends on port p is engine p - 1 mod 5
\* and the only engine that receives from it is engine p, so engine i's output
\* port is the input port of engine (i + 1) mod 5; an end once dropped is not
\* used again in that run.
C6_RingWiring ==
    /\ [](\A p \in Ports :
            /\ chan[p].writers \subseteq {Upstream(p)}
            /\ chan[p].readers \subseteq {p})
    /\ [][\A p \in Ports : C6_Closed(p)]_vars

\* every port of the ring has carried a value from its one writer to its one reader
C6_Witness ==
    \A p \in Ports :
        /\ chan[p].writers = {Upstream(p)}
        /\ chan[p].readers = {p}
        /\ Len(chan[p].received) > chan[p].seeded

\* C7: the first value each engine's Input receives is its own phase setting,
\* the second value A receives is the initial signal 0, and the values engine E
\* sends to A come after these two.
C7_SeedingOrder ==
    permIdx >= 1 =>
        /\ \A i \in Engines :
              Len(chan[Wiring(i).inp].received) >= 1 =>
                  chan[Wiring(i).inp].received[1] = CurrentSettings[i + 1]
        /\ Len(chan[0].received) >= 2 => chan[0].received[2] = 0
        /\ chan[0].seeded = 2
        /\ \A p \in Ports : p # 0 => chan[p].seeded = 1

\* in the second run every engine has read its phase setting and A the signal
C7_Witness ==
    /\ permIdx = 2
    /\ \A i \in Engines : Len(chan[Wiring(i).inp].received) >= 1
    /\ Len(chan[0].received) = 2

\* C8: with the identity program the value main obtains from engine E is the
\* seeded signal 0, for every permutation and interleaving.
C8_IdentityRingYieldsSeed ==
    (program = IdentityProgram /\ eng[EngineE].status = "finished")
    => eng[EngineE].result = OkSome(0)

RECURSIVE SeqMax(_)
SeqMax(q) ==
    IF Len(q) = 1 THEN q[1]
    ELSE LET m == SeqMax(Tail(q)) IN IF q[1] > m THEN q[1] ELSE m

\* C9: when main is done it has run one pipeline per permutation and printed
\* the maximum of their terminal values.
C9_ResultIsMaximum ==
    mainpc = "done"
    => /\ Len(diagnostics) = NumRuns
       /\ printed = <<SeqMax(diagnostics)>>

\* engine i's evaluate returned Err(OpCode) or Err(Input)
EngineFailed(i) == eng[i].result.kind \in {"opcode", "input"}

\* C10 as stated: a run whose engine E ended with a fatal error is left out of
\* the maximum and main goes on to the next permutation.
C10_FailedRunIsSkipped ==
    [][(mainpc = "compare" /\ EngineFailed(EngineE) /\ mainpc' # mainpc)
        => /\ mainpc' = "loop"
           /\ max_thruster_signal' = max_thruster_signal
           /\ printed' = printed]_vars

C10_MainStep ==
    (mainpc = "compare" /\ mainpc' # mainpc)
    => IF eng[EngineE].result.kind = "some"
       THEN /\ mainpc' = "loop"
            /\ diagnostics' = Append(diagnostics, eng[EngineE].result.val)
       ELSE /\ mainpc' = "panicked"
            /\ printed' = <<>>
            /\ UNCHANGED <<permIdx, max_thruster_signal, diagnostics>>

C10_AfterPanic == mainpc = "panicked" => UNCHANGED vars

C10_ThreadFailure(i) ==
    (i # EngineE /\ ~EngineFailed(i) /\ EngineFailed(i)')
    => /\ UNCHANGED <<mainpc, permIdx, max_thruster_signal, printed, diagnostics>>
       /\ \A j \in Engines : j # i => eng'[j] = eng[j]

\* C10 amended: when engine E's evaluate does not return Some (a fatal error
\* among the causes) main panics: the process ends, no further permutation is
\* run and nothing is printed. A fatal error of engine A, B, C or D ends that
\* engine's thread alone and changes nothing of main or of the other engines.
C10_FailedRunAbortsSearch ==
    [][/\ C10_MainStep
       /\ C10_AfterPanic
       /\ \A i \in Engines : C10_ThreadFailure(i)]_vars

\* main has panicked on engine E's input error, before the last permutation
C10_Witness ==
    /\ mainpc = "panicked"
    /\ eng[EngineE].result.kind = "input"
    /\ permIdx < NumRuns
    /\ printed = <<>>


\* the state a pipeline run starts from: each engine on its own copy of the
\* program image at pc 0, each channel holding its seeds and nothing else
C11_FreshRun ==
    permIdx' # permIdx
    => /\ \A i \in Engines :
             eng'[i] = [mem |-> Clone(program), pc |-> 0,
                        status |-> "created", result |-> Running]
       /\ \A p \in Ports :
             /\ chan'[p].queue = Seed(NthPermutation(PhaseSettings, permIdx))[p]
             /\ chan'[p].sent = chan'[p].queue
             /\ chan'[p].received = <<>>
             /\ chan'[p].senderAlive /\ chan'[p].receiverAlive

\* C11: the program image is never modified; within a run a step writes the
\* memory of one engine at most, the engine that takes it, and leaves the other
\* four memories as they were; every run starts all five engines from a fresh
\* copy of the image, at pc 0, on fresh channels (the running maximum is the
\* only thing main keeps from one run to the next).
C11_MemoryIsolation ==
    [][/\ program' = program
       /\ C11_FreshRun
       /\ permIdx' = permIdx =>
             \A i \in Engines :
                 eng'[i].mem # eng[i].mem
                 => /\ eng[i].status = "running"
                    /\ eng'[i].pc # eng[i].pc
                    /\ \A j \in Engines : j # i => eng'[j] = eng[j]
       /\ vm'.memory # vm.memory => eng' = eng]_vars

\* in the second run engine A has written its memory while B still runs on an
\* untouched copy of the image
C11_Witness ==
    /\ permIdx = 2
    /\ eng[0].status = "running"
    /\ eng[0].mem # Clone(program)
    /\ eng[1].status = "running"
    /\ eng[1].mem = Clone(program)


\* the two least-significant decimal digits of a word
LowTwo(w) == w % 100

\* the instructions in the order of their op codes 1..9
OpNames == <<"Add", "Mul", "Input", "Output", "JumpTrue", "JumpFalse",
             "LessThan", "Equals", "AdjRelative">>

\* C12: the two low digits of the (non-negative) word at pc are the op code:
\* 01..09 are executed as Add .. AdjRelative, 99 halts, and every other word is
\* rejected with the op code error.
C12_OpcodeIsLowTwoDigits ==
    [][LET w == get_memory(vm, vm.pc) IN
       (vm.status = "running" /\ w >= 0 /\ vm' # vm)
       => CASE LowTwo(w) \in 1..9 ->
                 /\ Decoded(vm).ok
                 /\ Decoded(vm).op = OpNames[LowTwo(w)]
                 /\ vm'.result.kind # "opcode"
            [] LowTwo(w) = 99 ->
                 /\ vm'.status = "returned"
                 /\ vm'.result = OkNone
            [] OTHER ->
                 /\ vm'.status = "returned"
                 /\ vm'.result.kind = "opcode"]_vars


\* the modes in the order of their digits 0, 1, 2
ModeNames == <<"Position", "Immediate", "Relative">>

\* the decimal digit of w that gives the mode of operand k: hundreds for
\* operand 1, thousands for operand 2, ten-thousands for operand 3
ModeDigit(w, k) == (w \div <<100, 1000, 10000>>[k]) % 10

\* C13: the instruction decoded from the (non-negative) word at pc carries, for
\* each of its operands k, the mode named by the word's digit k + 2 from the
\* right (0 Position, 1 Immediate, 2 Relative; an absent digit is 0), and 1002
\* is Mul with modes Position, Immediate, Position.
C13_ModeDecoding ==
    LET w == get_memory(vm, vm.pc)
        d == Decoded(vm)
    IN  (vm.status = "running" /\ w >= 0 /\ w # 99 /\ d.ok)
        => /\ Len(d.modes) = parameters(d.op)
           /\ \A k \in 1..Len(d.modes) :
                 ModeDigit(w, k) \in 0..2
                 => d.modes[k] = ModeNames[ModeDigit(w, k) + 1]
           /\ w = 1002 =>
                 (d.op = "Mul" /\ d.modes = <<"Position", "Immediate", "Position">>)

\* 1002,8,9,10 has run: memory[10] = memory[8] * 9
C13_Witness ==
    /\ program = WordProgram(1002)
    /\ vm.pc = 4
    /\ get_memory(vm, 10) = 27


\* the last decimal digit of a word, as a character
LastDigit(w) == DigitChar[((IF w < 0 THEN -w ELSE w) % 10) + 1]

C14_Step ==
    LET w == get_memory(vm, vm.pc) IN
    (vm.status = "running" /\ w # 99 /\ LastDigit(w) = "0" /\ vm' # vm)
    => /\ vm' = [vm EXCEPT !.status = "returned", !.result = ErrOpCode("0")]
       /\ io' = io

C14_After ==
    vm.result.kind = "opcode"
    => /\ vm'.result = vm.result
       /\ vm'.memory = vm.memory
       /\ vm'.pc = vm.pc
       /\ vm'.relative_base = vm.relative_base
       /\ vm'.status # "running"
       /\ io'.output.sent = io.output.sent
       /\ io'.input.received = io.input.received

\* C14: when the word at pc ends in a digit that is no op code (0, the only
\* one), the step ends the run with the op code error carrying that digit,
\* memory, pc and relative base as they were, and nothing is executed, sent or
\* received by the engine afterwards.
C14_DecodeFailureIsFatal == [][C14_Step /\ C14_After]_vars

\* 1006 did not jump and the word 10 after it was rejected
C14_Witness ==
    /\ program = WordProgram(1006)
    /\ vm.result = ErrOpCode("0")
    /\ vm.pc = 3
    /\ vm.status = "dropped"


C15_Halt7(i) ==
    (/\ eng[i].status = "running"
     /\ InBounds(eng[i].mem, eng[i].pc)
     /\ eng[i].mem[eng[i].pc] = 99
     /\ OwnStep7(i))
    => /\ eng'[i] = [eng[i] EXCEPT !.status = "returned", !.result = OkNone]
       /\ \A p \in Ports : /\ chan'[p].sent = chan[p].sent
                           /\ chan'[p].received = chan[p].received

C15_After7(i) ==
    (eng[i].result.kind = "none" /\ eng'[i].status \notin {"created", "killed"})
    => /\ eng'[i].result = eng[i].result
       /\ eng'[i].mem = eng[i].mem
       /\ eng'[i].pc = eng[i].pc
       /\ eng'[i].status \in {"returned", "finished"}
       /\ chan'[Wiring(i).out].sent = chan[Wiring(i).out].sent
       /\ chan'[Wiring(i).inp].received = chan[Wiring(i).inp].received

C15_Halt9 ==
    (vm.status = "running" /\ get_memory(vm, vm.pc) = 99 /\ vm' # vm)
    => /\ vm' = [vm EXCEPT !.status = "returned", !.result = OkNone]
       /\ io' = io

C15_After9 ==
    vm.result.kind = "none"
    => /\ vm'.result = vm.result
       /\ vm'.memory = vm.memory
       /\ vm'.pc = vm.pc
       /\ vm'.relative_base = vm.relative_base
       /\ vm'.status # "running"
       /\ io'.output.sent = io.output.sent
       /\ io'.input.received = io.input.received

\* C15: from a state whose word at pc is 99 the only step of the engine is the
\* return of Ok(None) with memory, pc and relative base as they were; nothing
\* is executed, sent or received by it afterwards (day7 and day9).
C15_HaltEndsRun ==
    [][/\ \A i \in Engines : C15_Halt7(i) /\ C15_After7(i)
       /\ C15_Halt9
       /\ C15_After9]_vars

\* engine A ran the identity program to its 99 and returned Ok(None)
C15_Witness ==
    /\ program = IdentityProgram
    /\ eng[0].result = OkNone
    /\ eng[0].pc = 6
    /\ eng[0].status = "finished"


\* the values engine i has sent: what is on its output channel after the seeds
Outputs7(i) ==
    LET c == chan[Wiring(i).out] IN SubSeq(c.sent, c.seeded + 1, Len(c.sent))

\* engine i's run ended on 99 or on an Output whose channel has no Receiver
EndedNormally7(i) == Ended7(i) /\ eng[i].result.kind \in {"none", "some"}

\* the most recent output of an ended engine: the operand of the Output it
\* ended on, else the last value it sent
MostRecentOutput7(i) ==
    LET e == [eng[i] EXCEPT !.status = "running"] IN
    IF At7(e, {"Output"}) THEN OutputValue7(e)
    ELSE Outputs7(i)[Len(Outputs7(i))]

\* C16 as stated: an engine that has output a value returns its most recent
\* output value, whether its run ended on 99 or on a closed port.
C16_ReturnsMostRecentOutput ==
    \A i \in Engines :
        (EndedNormally7(i) /\ (Outputs7(i) # <<>> \/ eng[i].result.kind = "some"))
        => eng[i].result = OkSome(MostRecentOutput7(i))

\* C16 amended: a run that ends on 99 returns Ok(None), no value, whatever the
\* engine has output; a run that ends on an Output whose channel has no
\* Receiver returns Some(v), v the operand of that Output, which was not sent.
C16_TerminalValue ==
    /\ \A i \in Engines :
          LET e == [eng[i] EXCEPT !.status = "running"] IN
          Ended7(i) =>
            /\ (InBounds(e.mem, e.pc) /\ e.mem[e.pc] = 99) <=> eng[i].result = OkNone
            /\ eng[i].result.kind = "some" <=>
                  (At7(e, {"Output"}) /\ ~IndexPanics7(e))
            /\ eng[i].result.kind = "some" =>
                  /\ eng[i].result.val = OutputValue7(e)
                  /\ ~chan[Wiring(i).out].receiverAlive
    /\ LET m == [vm EXCEPT !.status = "running"] IN
       vm.status \in {"returned", "dropping", "dropped"} =>
            /\ get_memory(m, m.pc) = 99 <=> vm.result = OkNone
            /\ vm.result.kind = "some" <=> At9(m, {"Output"})
            /\ vm.result.kind = "some" =>
                  /\ vm.result.val = OutputValue(m)
                  /\ ~io.output.receiverAlive

\* engine A has sent a value to B and then ended on 99 with Ok(None)
C16_Witness ==
    /\ EndedNormally7(0)
    /\ Outputs7(0) # <<>>
    /\ eng[0].result = OkNone


\* the operand counts the claim lists
OperandCount ==
    [op \in {"Add", "Mul", "LessThan", "Equals"} |-> 3]
    @@ [op \in {"Input", "Output", "AdjRelative"} |-> 1]
    @@ [op \in {"JumpTrue", "JumpFalse"} |-> 2]

\* the jump decoded at pc fires
Fires9 ==
    LET d == Decoded(vm)
        a == get_value(vm, 1, d.modes[1])
    IN  \/ d.op = "JumpTrue" /\ a # 0
        \/ d.op = "JumpFalse" /\ a = 0

\* C17: a step of the day9 engine that executes an instruction to its end (the
\* engine goes on running) and is not a jump that fires moves pc on by 1 plus
\* the instruction's operand count: by 4 for Add, Mul, LessThan, Equals, by 2
\* for Input, Output, AdjRelative, by 3 for a jump; and the instruction decoded
\* carries as many modes as it has operands.
C17_PcAdvance ==
    [][LET d == Decoded(vm) IN
       (/\ vm.status = "running"
        /\ get_memory(vm, vm.pc) # 99
        /\ d.ok
        /\ vm' # vm
        /\ vm'.status = "running"
        /\ ~(d.op \in JumpOps /\ Fires9))
       => /\ vm'.pc = vm.pc + 1 + OperandCount[d.op]
          /\ parameters(d.op) = OperandCount[d.op]
          /\ Len(d.modes) = OperandCount[d.op]]_vars

\* 109,8 has run: the relative base is 8 and pc is 2
C17_Witness ==
    /\ program = WordProgram(109)
    /\ vm.status = "running"
    /\ vm.pc = 2
    /\ vm.relative_base = 8


\* the jump decoded at engine i's pc fires
Fires7(i) ==
    LET e == eng[i]
        d == Decoded7(e)
        a == Value7(e.mem, e.pc, 1, d.modes[1]).v
    IN  \/ d.op = "JumpTrue" /\ a # 0
        \/ d.op = "JumpFalse" /\ a = 0

C18_Jump7(i) ==
    LET e == eng[i]
        target == Value7(e.mem, e.pc, 2, Decoded7(e).modes[2]).v
    IN
    (At7(e, JumpOps) /\ ~IndexPanics7(e) /\ OwnStep7(i))
    => /\ eng'[i] = [e EXCEPT !.pc = IF Fires7(i) THEN target ELSE e.pc + 3]
       /\ chan' = chan

C18_Jump9 ==
    LET target == get_value(vm, 2, Decoded(vm).modes[2]) IN
    (At9(vm, JumpOps) /\ vm' # vm)
    => /\ vm' = [vm EXCEPT !.pc = IF Fires9 THEN target ELSE vm.pc + 3]
       /\ io' = io

\* C18: a step on JumpTrue fires iff its first operand is not 0, one on
\* JumpFalse iff it is 0; when it fires pc becomes the value of the second
\* operand, otherwise pc + 3; memory, relative base and the channels are
\* unchanged (day7 and day9).
C18_Jumps ==
    [][/\ \A i \in Engines : C18_Jump7(i)
       /\ C18_Jump9]_vars

\* engine A went through a JumpTrue that fired, a JumpFalse that did not and a
\* JumpTrue that did not (its signal is 0), and halted at address 16
C18_Witness ==
    /\ program = JumpProgram
    /\ eng[0].result = OkNone
    /\ eng[0].pc = 16
    /\ eng[0].mem[1] = 0


\* the word stored at address a of the day9 memory, 0 where nothing is stored
Word9(a) == IF a \in DOMAIN vm.memory THEN vm.memory[a] ELSE 0

\* the address a write operand at offset k names
Target9(k) ==
    LET mode == Decoded(vm).modes[k] IN
    CASE mode = "Position" -> Word9(vm.pc + k)
      [] mode = "Immediate" -> vm.pc + k
      [] mode = "Relative" -> Word9(vm.pc + k) + vm.relative_base

\* the value a read operand at offset k names
Read9(k) ==
    LET mode == Decoded(vm).modes[k] IN
    CASE mode = "Position" -> Word9(Word9(vm.pc + k))
      [] mode = "Immediate" -> Word9(vm.pc + k)
      [] mode = "Relative" -> Word9(Word9(vm.pc + k) + vm.relative_base)

\* memory after the step holds v at address a and is otherwise as before
WritesOnly9(a, v) ==
    /\ DOMAIN vm'.memory = DOMAIN vm.memory \cup {a}
    /\ vm'.memory[a] = v
    /\ \A b \in DOMAIN vm.memory : b # a => vm'.memory[b] = vm.memory[b]

C19_Step ==
    LET op == Decoded(vm).op IN
    (vm.status = "running" /\ get_memory(vm, vm.pc) # 99 /\ Decoded(vm).ok
     /\ vm' # vm)
    => CASE op = "Add" -> WritesOnly9(Target9(3), Read9(1) + Read9(2))
         [] op = "Mul" -> WritesOnly9(Target9(3), Read9(1) * Read9(2))
         [] op = "LessThan" ->
              WritesOnly9(Target9(3), IF Read9(1) < Read9(2) THEN 1 ELSE 0)
         [] op = "Equals" ->
              WritesOnly9(Target9(3), IF Read9(1) = Read9(2) THEN 1 ELSE 0)
         [] op = "Input" ->
              \/ vm'.result = ErrInput /\ vm'.memory = vm.memory
              \/ /\ io.input.queue # <<>>
                 /\ WritesOnly9(Target9(1), Head(io.input.queue))
         [] op = "Output" ->
              /\ vm'.memory = vm.memory
              /\ \/ io'.output.sent = Append(io.output.sent, Word9(Target9(1)))
                 \/ vm'.result = OkSome(Word9(Target9(1)))
         [] op = "AdjRelative" ->
              /\ vm'.memory = vm.memory
              /\ vm'.relative_base = vm.relative_base + Read9(1)
         [] OTHER -> vm'.memory = vm.memory

\* C19: a read operand at offset k is memory[memory[pc+k]] in Position mode,
\* memory[pc+k] in Immediate mode, memory[memory[pc+k] + relative_base] in
\* Relative mode; a write operand names the address memory[pc+k], pc+k,
\* memory[pc+k] + relative_base; Add, Mul, LessThan, Equals and Input write
\* that one address and no other, and Output sends the word stored at its
\* address (day9; unwritten memory reads 0).
C19_OperandResolution == [][C19_Step]_vars

\* 109,10,203,0,204,0: with relative base 10 the input was written to address
\* 10 and sent from there
C19_Witness ==
    /\ program = RelativeProgram
    /\ vm.relative_base = 10
    /\ 10 \in DOMAIN vm.memory
    /\ io.output.sent = <<vm.memory[10]>>

-----------------------------------------------------------------------------
(* C20 *)

\* the assignments memory[c] := memory[a] + memory[b] or memory[a] * memory[b]
\* of the instructions met from pc on, applied one after the other until the
\* word 99; ok is FALSE when the words met are not such a sequence
RECURSIVE DirectEvaluation(_, _)
DirectEvaluation(m, pc) ==
    IF pc \notin DOMAIN m THEN [ok |-> FALSE, memory |-> m]
    ELSE IF m[pc] = 99 THEN [ok |-> TRUE, memory |-> m]
    ELSE IF \/ m[pc] \notin {1, 2}
            \/ {pc + 1, pc + 2, pc + 3} \ DOMAIN m # {}
         THEN [ok |-> FALSE, memory |-> m]
    ELSE IF {m[pc + 1], m[pc + 2], m[pc + 3]} \ DOMAIN m # {}
         THEN [ok |-> FALSE, memory |-> m]
    ELSE LET x == m[m[pc + 1]]
             y == m[m[pc + 2]]
             r == IF m[pc] = 1 THEN x + y ELSE x * y
         IN  DirectEvaluation([m EXCEPT ![m[pc + 3]] = r], pc + 4)

\* the memory a day2 trial starts from, and the memory it is compared with
Start2 == Trial2(program, day2.noun, day2.verb).memory
C20_Day2 ==
    day2.status \in {"halted", "panicked"} =>
        LET r == DirectEvaluation(Start2, 0) IN
        /\ r.ok <=> day2.status = "halted"
        /\ day2.status = "halted" => day2.memory = r.memory

\* day9 on the same programs: evaluate returns Ok(None) with the same memory
C20_Day9 ==
    (vm.status # "none" /\ vm.result # Running) =>
        LET r == DirectEvaluation(Clone(program), 0) IN
        r.ok => vm.result = OkNone /\ vm.memory = r.memory

\* the three examples, in both interpreters
C20_Example(p, a, v) ==
    /\ (day2.status = "halted" /\ Start2 = Clone(p)) => day2.memory[a] = v
    /\ (vm.result = OkNone /\ program = p) => vm.memory[a] = v

\* C20: for every program made only of Add and Multiply instructions in
\* Position mode followed by Halt, running to Halt leaves memory equal to the
\* direct evaluation of the same sequence of assignments
\* memory[c] := memory[a] + memory[b] or memory[a] * memory[b]; in particular
\* 1,0,0,0,99 ends with memory[0] = 2, 2,3,0,3,99 ends with memory[3] = 6, and
\* 1,9,10,3,2,3,11,0,99,30,40,50 ends with memory[0] = 3500.
C20_ArithmeticReference ==
    /\ C20_Day2
    /\ C20_Day9
    /\ C20_Example(<<1, 0, 0, 0, 99>>, 0, 2)
    /\ C20_Example(<<2, 3, 0, 3, 99>>, 3, 6)
    /\ C20_Example(<<1, 9, 10, 3, 2, 3, 11, 0, 99, 30, 40, 50>>, 0, 3500)

\* the day2 interpreter has run the third example to its Halt
C20_Witness ==
    /\ day2.status = "halted"
    /\ Start2 = Clone(<<1, 9, 10, 3, 2, 3, 11, 0, 99, 30, 40, 50>>)
    /\ day2.pc = 8
    /\ day2.memory[0] = 3500

-----------------------------------------------------------------------------
(* C21 *)

\* the step about to be taken executes the comparison op of the day9 engine
C21_Compares(op) ==
    /\ vm.status = "running"
    /\ get_memory(vm, vm.pc) # 99
    /\ Decoded(vm).ok
    /\ Decoded(vm).op = op
    /\ vm' # vm

\* the word the step leaves at the target of the instruction
C21_Written == vm'.memory[Target9(3)]

\* C21: for every pair of operand values a and b, negative values included,
\* LessThan writes 1 to its target if a < b and 0 otherwise, and Equals writes
\* 1 if a = b and 0 otherwise; no other value is ever written by these two
\* instructions (every other address keeps its word).
C21_ComparisonOpcodes ==
    [][/\ C21_Compares("LessThan") =>
            /\ Target9(3) \in DOMAIN vm'.memory
            /\ C21_Written \in {0, 1}
            /\ C21_Written = 1 <=> Read9(1) < Read9(2)
            /\ \A x \in DOMAIN vm'.memory \ {Target9(3)} :
                  x \in DOMAIN vm.memory /\ vm'.memory[x] = vm.memory[x]
       /\ C21_Compares("Equals") =>
            /\ Target9(3) \in DOMAIN vm'.memory
            /\ C21_Written \in {0, 1}
            /\ C21_Written = 1 <=> Read9(1) = Read9(2)
            /\ \A x \in DOMAIN vm'.memory \ {Target9(3)} :
                  x \in DOMAIN vm.memory /\ vm'.memory[x] = vm.memory[x]
      ]_vars

\* LessThan on -3 and -1 has written 1 over the 7 at address 5
C21_Witness ==
    /\ program = CompareProgram(1107, -3, -1)
    /\ vm.pc = 4
    /\ vm.memory[5] = 1

-----------------------------------------------------------------------------
(* C22 *)

\* the values written through a Relative-mode operand by the run so far: the
\* inputs received, or the constant of RelativeAdd once its Add is done
C22_WrittenRelative ==
    IF \E k \in Bases, o \in Offsets : program = RelativeAdd(k, o)
    THEN IF vm.pc >= 6 THEN <<-5>> ELSE <<>>
    ELSE io.input.received

\* the relative base a relative-mode program has set once its AdjRelative
\* instructions are done
C22_BaseSet ==
    \A k \in Bases, o \in Offsets :
        /\ (program \in {RelativeInput(k, o), RelativeRead(k, o), RelativeAdd(k, o)}
            /\ vm.pc >= 2) => vm.relative_base = k
        /\ (program = RelativeTwice(k, o) /\ vm.pc >= 4) => vm.relative_base = k + k

\* C22: the relative base starts at 0 and is changed only by AdjustRelativeBase,
\* which adds its operand value to it; after the base has been set, a value
\* written through a Relative-mode operand with offset o is returned unchanged
\* by a later Relative-mode read with the same offset o (the base and that
\* address not being modified in between).
C22_RelativeRoundTrip ==
    /\ [](vm = Intcode_new(program) => vm.relative_base = 0)
    /\ [][vm'.relative_base # vm.relative_base =>
            /\ At9(vm, {"AdjRelative"})
            /\ vm'.relative_base = vm.relative_base + Read9(1)]_vars
    /\ [](program \in RelativePrograms =>
            /\ C22_BaseSet
            /\ Len(io.output.sent) <= Len(C22_WrittenRelative)
            /\ \A n \in 1..Len(io.output.sent) :
                  io.output.sent[n] = C22_WrittenRelative[n])

\* base -4 + -4, offset 7: the input -1 went to address -1 and came back
C22_Witness ==
    /\ program = RelativeTwice(-4, 7)
    /\ vm.relative_base = -8
    /\ io.input.received = <<-1>>
    /\ -1 \in DOMAIN vm.memory
    /\ vm.memory[-1] = -1
    /\ io.output.sent = <<-1>>

-----------------------------------------------------------------------------
(* C23 *)

\* the addresses of the initial program
C23_ProgramAddresses == 0..(Len(program) - 1)

\* SparseProgram(a): what has been sent is a prefix of 0 (a unwritten), the
\* input v (a written), 0 (Unwritten); the program's own words are as they
\* were; a is the only address added, holding v once the Input is done
C23_Sparse(a) ==
    program = SparseProgram(a) =>
        /\ vm.result.kind \notin {"opcode", "panic"}
        /\ Len(io.output.sent) <= 3
        /\ \A n \in 1..Len(io.output.sent) :
              io.output.sent[n] = IF n = 2 THEN io.input.received[1] ELSE 0
        /\ DOMAIN vm.memory \subseteq C23_ProgramAddresses \cup {a}
        /\ \A x \in C23_ProgramAddresses : vm.memory[x] = program[x + 1]
        /\ vm.pc >= 4 => a \in DOMAIN vm.memory /\ vm.memory[a] = io.input.received[1]
        /\ vm.pc < 4 => a \notin DOMAIN vm.memory

\* SparseAdd(a): the sum is stored at a and read back from there
C23_SparseAdd(a) ==
    program = SparseAdd(a) =>
        /\ vm.result.kind \notin {"opcode", "panic"}
        /\ io.output.sent \in {<<>>, <<5>>}
        /\ DOMAIN vm.memory \subseteq C23_ProgramAddresses \cup {a}
        /\ \A x \in C23_ProgramAddresses : vm.memory[x] = program[x + 1]
        /\ vm.pc >= 4 => a \in DOMAIN vm.memory /\ vm.memory[a] = 5

\* C23: in the day9 engine, reading any address that was never written and
\* lies outside the initial program returns 0, however large the address; a
\* write to any address succeeds, however far past the program length, and a
\* later read of that address returns the written value while all other
\* addresses keep their values.
C23_SparseMemory ==
    /\ [](\A a \in FarAddresses : C23_Sparse(a) /\ C23_SparseAdd(a))
    /\ [][(vm.status = "running" /\ vm'.memory # vm.memory) =>
            \E a \in DOMAIN vm'.memory :
                /\ DOMAIN vm'.memory = DOMAIN vm.memory \cup {a}
                /\ \A x \in DOMAIN vm.memory \ {a} : vm'.memory[x] = vm.memory[x]
                /\ vm'.status = "running"]_vars

\* the whole of SparseProgram has run on the largest address
C23_Witness ==
    /\ program = SparseProgram(2147483647)
    /\ io.input.received = <<2>>
    /\ io.output.sent = <<0, 2, 0>>
    /\ vm.memory[2147483647] = 2
    /\ vm.result = OkNone

-----------------------------------------------------------------------------
(* C24 *)

\* s is an initial part of t
C24_Prefix(s, t) == Len(s) <= Len(t) /\ \A n \in 1..Len(s) : s[n] = t[n]

\* one of s and t is an initial part of the other
C24_Agree(s, t) == C24_Prefix(s, t) \/ C24_Prefix(t, s)

\* the values sent by the day9 engine, by day7's evaluate, assigned by day5's
\* evaluate to diagnostic_code
C24_Out9 == io.output.sent
C24_Out7 == chan[Wiring(0).out].sent
C24_Out5 == day5.outputs

\* all three have reached the op code 99
C24_AllHalted ==
    /\ vm.result = OkNone
    /\ eng[0].result = OkNone
    /\ day5.result.kind = "ok"
    /\ day2.status \in {"none", "halted"}

\* the steps made so far are the same steps
C24_SameSoFar ==
    /\ C24_Agree(hist.d9, hist.d7)
    /\ C24_Agree(hist.d9, hist.d5)
    /\ C24_Agree(hist.d7, hist.d5)
    /\ C24_Agree(C24_Out9, C24_Out7)
    /\ C24_Agree(C24_Out9, C24_Out5)
    /\ C24_Agree(C24_Out7, C24_Out5)
    /\ day2.status # "none" => C24_Agree(hist.d2, hist.d9)

\* none of them fails where another goes on
C24_NoneFails ==
    /\ vm.result.kind \in {"running", "none", "some"}
    /\ vm.result.kind = "some" => ~io.output.receiverAlive
    /\ eng[0].result.kind \in {"running", "none"}
    /\ day5.result.kind \in {"running", "ok"}
    /\ day2.status \in {"none", "running", "halted"}

\* at the end the whole sequences are equal
C24_SameAtEnd ==
    C24_AllHalted =>
        /\ hist.d9 = hist.d7
        /\ hist.d9 = hist.d5
        /\ C24_Out9 = C24_Out7
        /\ C24_Out9 = C24_Out5
        /\ vm.memory = eng[0].mem
        /\ vm.memory = day5.mem
        /\ day2.status = "halted" => hist.d2 = hist.d9 /\ day2.memory = vm.memory

\* C24: for every program that uses only opcodes 1-8 and 99 with mode digits 0
\* and 1 and only addresses inside the initial program, the day9 engine, the
\* day7 evaluate and the day5 evaluate go through the same sequence of pc
\* values and memory contents and produce the same sequence of output values
\* when given the same inputs (and the day2 loop does the same on programs of
\* opcodes 1, 2 and 99).
C24_FinalEngineSubsumes ==
    hist.on => C24_SameSoFar /\ C24_NoneFails /\ C24_SameAtEnd

\* the three have run the branching program on input 2 to its end: five steps
\* each and the one output 0 (2 < 2 is false)
C24_Witness ==
    /\ hist.on
    /\ program = SameBranch
    /\ C24_AllHalted
    /\ Len(hist.d9) = 4
    /\ Len(hist.d7) = 4
    /\ Len(hist.d5) = 4
    /\ C24_Out5 = <<0>>
    /\ io.input.received = <<2>>

-----------------------------------------------------------------------------
(* C25 *)

\* the address the Input instruction at pc names
C25_InputTarget ==
    IF Decoded5(day5).modes[1] = "Immediate" THEN day5.pc + 1
    ELSE day5.mem[day5.pc + 1]

\* the value read by the last Output executed, 0 if none was
C25_LastOutput ==
    IF day5.outputs = <<>> THEN 0 ELSE day5.outputs[Len(day5.outputs)]

\* C25: the day5 evaluate(memory, input) stores the same value input at the
\* target of every Input instruction and, when the program reaches opcode 99,
\* returns Ok(d) where d is the value read by the last Output instruction
\* executed (0 if no Output was executed); for the bundled diagnostic program
\* input 1 gives 8332629 and input 5 gives 8805067.
C25_Day5Evaluate ==
    /\ [][/\ day5'.input = day5.input \/ day5.status = "none"
          /\ (At5(day5, {"Input"}) /\ day5'.status = "running" /\ day5' # day5) =>
                /\ day5'.mem[C25_InputTarget] = day5.input
                /\ \A a \in DOMAIN day5.mem \ {C25_InputTarget} :
                      day5'.mem[a] = day5.mem[a]
          /\ (day5.status = "running" /\ day5'.status = "returned"
              /\ InBounds(day5.mem, day5.pc) /\ day5.mem[day5.pc] = 99) =>
                day5'.result = Ok5(C25_LastOutput)]_vars
    /\ [](day5.result.kind = "ok" => day5.result.val = C25_LastOutput)
    /\ [](program = DiagnosticProgram /\ day5.status # "none" =>
            /\ day5.result.kind \in {"running", "ok"}
            /\ (day5.result.kind = "ok" /\ day5.input = 1) => day5.result.val = 8332629
            /\ (day5.result.kind = "ok" /\ day5.input = 5) => day5.result.val = 8805067)

\* test_part_2: the diagnostic program has ended on input 5
C25_Witness ==
    /\ program = DiagnosticProgram
    /\ day5.input = 5
    /\ day5.result = Ok5(8805067)
    /\ day5.outputs = <<8805067>>

-----------------------------------------------------------------------------
(* C26 *)

\* the number of values sent on port p and not yet received
C26_InFlight(p) == Len(chan[p].sent) - Len(chan[p].received)

\* C26 as stated: every port is an ordered channel with at most one value in
\* flight, i.e. in every reachable state of a pipeline run the number of values
\* sent on a port and not yet received is at most 1.
C26_PortCapacity == \A p \in Ports : C26_InFlight(p) <= 1

\* C26 as the program has it: every port is an ordered channel without a
\* capacity of one: the values in flight are those sent and not yet received,
\* in the order sent; the seeding leaves two values in flight on port a (the
\* phase setting and the signal 0) and one on every other port; and a send
\* onto a port that still holds a value adds its value behind it.
C26_PortsAreUnboundedQueues ==
    /\ [](\A p \in Ports :
            /\ chan[p].sent = chan[p].received \o chan[p].queue
            /\ C26_InFlight(p) = Len(chan[p].queue))
    /\ [][(mainpc = "loop" /\ mainpc' = "spawn") =>
            \A p \in Ports : C26_InFlight(p)' = IF p = 0 THEN 2 ELSE 1]_vars
    /\ [][\A p \in Ports :
            (mainpc' = mainpc /\ Len(chan'[p].sent) > Len(chan[p].sent)) =>
                /\ chan[p].receiverAlive
                /\ chan'[p].queue =
                     Append(chan[p].queue, chan'[p].sent[Len(chan'[p].sent)])]_vars

\* engine A has sent its output onto port b while B's phase setting is still
\* there: two values in flight on a port other than a
C26_Witness ==
    /\ C26_InFlight(1) = 2
    /\ chan[1].writers = {0}
    /\ chan[1].received = <<>>

-----------------------------------------------------------------------------
(* C27 *)

\* the engine's thread waits in recv: an Input is decoded, nothing is queued,
\* the Sender is alive
C27_EngineWaits ==
    /\ At9(vm, {"Input"})
    /\ io.input.queue = <<>>
    /\ io.input.senderAlive

\* main waits in recv_out.iter(): nothing is queued, the Sender is alive
C27_MainWaits ==
    /\ io.output.receiverAlive
    /\ io.output.queue = <<>>
    /\ io.output.senderAlive

\* C27: the day9 single-engine driver cannot deadlock: no reachable state has
\* the engine blocked on Input (after the one seeded value was consumed) while
\* the main thread is blocked waiting for outputs.
C27_NoDeadlock ==
    ~(C27_EngineWaits /\ C27_MainWaits /\ io.input.received = <<MainInput>>)


\* ---------------------------------------------------------------------------
\* C28: scheduling independence of a day7 pipeline run.
\* The reference is the interleaving in which the threads run in ring order,
\* each one until it blocks or ends, A first: A has returned from evaluate, and
\* dropped a_rec, before E sends its last Output, so E's send fails and E
\* returns that value.
C28_SequentialResult(p) ==
    CASE p = IdentityProgram -> OkSome(0)
      [] p = FeedbackProgram -> OkSome(0)
      [] p = DecrementProgram -> OkSome(-5)

\* the values the engine reading the given port receives through Input in that
\* interleaving: its phase setting, then the signals
C28_SequentialInputs(p, settings, port) ==
    CASE p = IdentityProgram -> <<settings[port + 1], 0>>
      [] p = FeedbackProgram -> <<settings[port + 1], 0, 0>>
      [] p = DecrementProgram -> <<settings[port + 1], -port>>
      [] p = BadOpProgram -> IF port = 0 THEN <<settings[1], 0>> ELSE <<settings[port + 1]>>
      [] p = RunOffProgram -> <<settings[port + 1], 0>>

C28_Prefix(s, t) == Len(s) <= Len(t) /\ \A n \in 1..Len(s) : s[n] = t[n]

\* in every interleaving the result of engine E is the one of the reference
\* interleaving of the same program and permutation
C28_SameResult ==
    (program \in HaltingPrograms /\ eng[EngineE].status \in {"returned", "finished"})
    => eng[EngineE].result = C28_SequentialResult(program)

\* in every interleaving the values an engine has received are a prefix of the
\* ones it receives in the reference interleaving, hence the sequences of any
\* two interleavings are prefixes of one another
C28_InputPrefixes ==
    permIdx >= 1 =>
    \A port \in Ports :
        C28_Prefix(chan[port].received,
                   C28_SequentialInputs(program,
                                        NthPermutation(PhaseSettings, permIdx - 1), port))

\* C28: for a fixed program and a fixed permutation of phase settings the
\* result of a pipeline run (the value engine E returns, or that it returns
\* none or fails) is the same in every interleaving of the engine threads, and
\* the sequence of values each engine receives through Input in one
\* interleaving is a prefix of the one it receives in any other.
C28_SchedulingIndependence == C28_SameResult /\ C28_InputPrefixes

\* the reference interleaving is one the program has: E ended with its result
C28_SequentialRun ==
    /\ program = IdentityProgram
    /\ permIdx = 1
    /\ eng[EngineE].status \in {"returned", "finished"}
    /\ eng[EngineE].result = C28_SequentialResult(program)


\* ---------------------------------------------------------------------------
\* C29: the day9 decoder and the characters in mode positions.

\* the n-th character of a text counted from its end
C29_FromRight(s, n) == IF n <= Len(s) THEN s[Len(s) + 1 - n] ELSE "absent"

\* the characters a decimal text is made of
C29_Chars == {"0", "1", "2", "3", "4", "5", "6", "7", "8", "9", "-"}

\* the text with another character in the tens position
C29_WithTens(s, t) == [s EXCEPT ![Len(s) - 1] = t]

\* the last decimal digit of a word is one of 1..9
C29_LastIsOpCode(w) == (IF w < 0 THEN -w ELSE w) % 10 \in 1..9

\* C29: whenever the day9 engine decodes the word at pc, decoding succeeds
\* exactly when the last character of the word's decimal text is one of 1..9
\* and the step fails with the op code error exactly when it is not; every
\* operand whose mode character is neither '1' nor '2' (a digit 3..9, the
\* minus sign, or no character) has Position mode; and the result is the same
\* whatever character stands in the tens position.
C29_ModePositionsNeverFail ==
    [][LET w == get_memory(vm, vm.pc)
           s == to_string(w)
           d == Decoded(vm)
       IN  (vm.status = "running" /\ w # 99 /\ vm' # vm)
           => /\ d.ok <=> C29_LastIsOpCode(w)
              /\ vm'.result.kind = "opcode" <=> ~C29_LastIsOpCode(w)
              /\ d.ok => \A k \in 1..Len(d.modes) :
                            C29_FromRight(s, k + 2) \notin {"1", "2"}
                            => d.modes[k] = "Position"
              /\ Len(s) >= 2 => \A t \in C29_Chars :
                                   Instruction_from_str(C29_WithTens(s, t)) = d]_vars

\* -2101,8,9,10 has run as Add with the modes Immediate, Relative and, for the
\* minus sign, Position: memory[10] = 8 + memory[9]
C29_Witness ==
    /\ program = WordProgram(-2101)
    /\ vm.pc = 4
    /\ get_memory(vm, 10) = 12

====
